---- MODULE Spec2Model ----
(***************************************************************************)
(* The rules engine of Rusty Duke (src/src/logic.rs): tile catalog, game   *)
(* state, action enumeration, move application and terminal detection.     *)
(***************************************************************************)
EXTENDS Integers, Sequences, FiniteSets, TLC

(* ---------------------------- bounds ------------------------------------ *)

\* Number of actions applied after the opening a behaviour starts from.
MaxSteps == 2

\* The random index of NewFromBag is drawn from the first MaxDraw bag slots.
MaxDraw == 2

\* Largest depth of an agent that searches an opening position.
MaxOpeningDepth == 3

\* Largest depth of an agent that searches a position of the middle game.
MaxMidgameDepth == 2

\* Largest short duration of an agent, in readings of the clock.
MaxDuration == 2

\* A duration no search of the model outlasts.
LongDuration == 1000

(* ------------------------- board primitives ----------------------------- *)

WIDTH == 6

HEIGHT == 6

Black == "Black"

White == "White"

TileColor == {Black, White}

\* Option<T>: None is the empty tuple, Some(v) the one-element tuple.
None == << >>

Some(v) == << v >>

is_some(o) == o # << >>

is_none(o) == o = << >>

unwrap(o) == o[1]

\* The cast `(v as i8 + d) as u8`: two's complement wrap into 0..255.
as_u8(v) == v % 256

legal(x, y) == x < WIDTH /\ y < HEIGHT

Coordinate(x, y) == [x |-> x, y |-> y]

\* Mutant of invert_offset: only the forward direction is inverted.
invert_offset_y(offset) == [x |-> offset.x, y |-> offset.y * (-1)]

invert_offset(offset) == [x |-> offset.x * (-1), y |-> offset.y * (-1)]

get_direction(start, end) ==
  [x |-> IF start.x < end.x THEN 1 ELSE IF start.x > end.x THEN -1 ELSE 0,
   y |-> IF start.y < end.y THEN 1 ELSE IF start.y > end.y THEN -1 ELSE 0]

TileType ==
  {"Duke", "Footman", "Pikeman", "Knight", "Bowman", "LightHorse", "Wizard",
   "Seer", "Champion", "Arbalist", "General", "Marshall", "Countess",
   "Ranger", "Sage", "RoyalAssassin"}

\* AvailableAction { kind, offset }
AA(kind, dx, dy) == [kind |-> kind, offset |-> [x |-> dx, y |-> dy]]

(* --------------------------- tile catalog ------------------------------- *)

TILE_ACTIONS ==
  [ Duke |->
      [front |-> << AA("Slide", 1, 0), AA("Slide", -1, 0) >>,
       back  |-> << AA("Slide", 0, 1), AA("Slide", 0, -1) >>],
    Footman |->
      [front |-> << AA("Move", 0, 1), AA("Move", 1, 0), AA("Move", 0, -1),
                    AA("Move", -1, 0) >>,
       back  |-> << AA("Move", 0, 2), AA("Move", 1, 1), AA("Move", 1, -1),
                    AA("Move", -1, -1), AA("Move", -1, 1) >>],
    Pikeman |->
      [front |-> << AA("Move", 1, 1), AA("Move", 2, 2), AA("Move", -1, 1),
                    AA("Move", -2, 2) >>,
       back  |-> << AA("Move", 0, 1), AA("Strike", 1, 2), AA("Move", 0, -1),
                    AA("Move", 0, -2), AA("Strike", -1, 2) >>],
    Knight |->
      [front |-> << AA("Jump", 1, 2), AA("Move", 1, 0), AA("Move", 0, -1),
                    AA("Move", 0, -2), AA("Move", -1, 0), AA("Jump", -1, 2) >>,
       back  |-> << AA("Slide", 0, 1), AA("Move", 1, -1), AA("Move", 2, -2),
                    AA("Move", -1, -1), AA("Move", -2, -2) >>],
    Bowman |->
      [front |-> << AA("Move", 0, 1), AA("Move", 1, 0), AA("Jump", 2, 0),
                    AA("Jump", 0, -2), AA("Move", -1, 0), AA("Jump", -2, 0) >>,
       back  |-> << AA("Move", 0, 1), AA("Strike", 0, 2), AA("Strike", 1, 1),
                    AA("Move", 1, -1), AA("Move", -1, -1), AA("Strike", -1, 1) >>],
    LightHorse |->
      [front |-> << AA("Slide", 0, 1), AA("Move", 1, -1), AA("Move", -1, -1) >>,
       back  |-> << AA("Strike", 1, 2), AA("Jump", 2, 1), AA("Jump", -2, 1),
                    AA("Strike", -1, 2) >>],
    Wizard |->
      [front |-> << AA("Move", 0, 1), AA("Move", 1, 1), AA("Move", 1, 0),
                    AA("Move", 1, -1), AA("Move", 0, -1), AA("Move", -1, -1),
                    AA("Move", -1, 0), AA("Move", -1, 1) >>,
       back  |-> << AA("Jump", 0, 2), AA("Jump", 2, 2), AA("Jump", 2, 0),
                    AA("Jump", 2, -2), AA("Jump", 0, -2), AA("Jump", -2, -2),
                    AA("Jump", -2, 0), AA("Jump", -2, 2) >>],
    Seer |->
      [front |-> << AA("Jump", 0, 2), AA("Move", 1, 1), AA("Jump", 2, 0),
                    AA("Move", 1, -1), AA("Jump", 0, -2), AA("Move", -1, -1),
                    AA("Jump", -2, 0), AA("Move", -1, 1) >>,
       back  |-> << AA("Move", 0, 1), AA("Jump", 2, 2), AA("Move", 1, 0),
                    AA("Jump", 2, -2), AA("Move", 0, -1), AA("Jump", -2, -2),
                    AA("Move", -1, 0), AA("Jump", -2, 2) >>],
    Champion |->
      [front |-> << AA("Move", 0, 1), AA("Jump", 0, 2), AA("Move", 1, 0),
                    AA("Jump", 2, 0), AA("Move", 0, -1), AA("Jump", 0, -2),
                    AA("Move", -1, 0), AA("Jump", -2, 0) >>,
       back  |-> << AA("Strike", 0, 1), AA("Jump", 0, 2), AA("Strike", 1, 0),
                    AA("Jump", 2, 0), AA("Strike", 0, -1), AA("Jump", 0, -2),
                    AA("Strike", -1, 0), AA("Jump", -2, 0) >>],
    Arbalist |->
      [front |-> << AA("Move", 0, 2), AA("Move", 1, 0), AA("Move", 1, -1),
                    AA("Move", -1, -1), AA("Move", -1, 0) >>,
       back  |-> << AA("Strike", 0, 1), AA("Strike", 0, 2), AA("Jump", 1, -2),
                    AA("Move", 0, -1), AA("Jump", -1, -2) >>],
    General |->
      [front |-> << AA("Move", 0, 1), AA("Jump", 1, 2), AA("Move", 2, 0),
                    AA("Move", 0, -1), AA("Move", -2, 0), AA("Jump", -1, 2) >>,
       back  |-> << AA("Move", 0, 1), AA("Jump", 1, 2), AA("Move", 1, 0),
                    AA("Move", 2, 0), AA("Move", -1, 0), AA("Move", -2, 0),
                    AA("Jump", -1, 2), AA("Command", 1, 0), AA("Command", 1, -1),
                    AA("Command", 0, -1), AA("Command", -1, -1), AA("Command", -1, 0) >>],
    Marshall |->
      [front |-> << AA("Jump", 2, 2), AA("Slide", 1, 0), AA("Jump", 0, -2),
                    AA("Slide", -1, 0), AA("Jump", -2, 2) >>,
       back  |-> << AA("Move", 0, 1), AA("Move", 1, 1), AA("Move", 1, 0),
                    AA("Move", 2, 0), AA("Move", 1, -1), AA("Move", -1, -1),
                    AA("Move", -1, 0), AA("Move", -2, 0), AA("Move", -1, 1),
                    AA("Command", 0, 1), AA("Command", 1, 1), AA("Command", -1, 1) >>],
    Countess |->
      [front |-> << AA("Move", 0, 1), AA("Move", 2, 0), AA("Move", 0, -1),
                    AA("Move", -2, 0), AA("Command", 2, 0), AA("Command", -1, 0) >>,
       back  |-> << AA("Move", 0, 1), AA("Move", 1, 0), AA("Move", 0, -2),
                    AA("Move", -1, 0), AA("Command", 1, 0), AA("Command", -2, 0) >>],
    Ranger |->
      [front |-> << AA("Slide", 0, 1), AA("Jump", 1, 2), AA("Jump", 2, 1),
                    AA("Jump", -2, 1), AA("Jump", -1, 2) >>,
       back  |-> << AA("Slide", 1, 1), AA("Jump", 1, -2), AA("Jump", -1, -2),
                    AA("Slide", -1, 1) >>],
    Sage |->
      [front |-> << AA("Move", 0, 1), AA("Move", 1, -1), AA("Move", -1, -1) >>,
       back  |-> << AA("Move", 0, 2), AA("Move", 2, 0), AA("Move", 0, -1),
                    AA("Move", -2, 0) >>],
    RoyalAssassin |->
      [front |-> << AA("Move", 0, -1) >>,
       back  |-> << AA("Slide", 0, 1), AA("Slide", 1, 0), AA("Slide", 0, -1),
                    AA("Slide", -1, 0) >>] ]

NO_EFFECTS == [front |-> << >>, back |-> << >>]

\* Mutant of TILE_EFFECTS: the Footman casts Defence on the square in front.
TILE_EFFECTS_footman ==
  [k \in {"Footman"} |-> [front |-> << AA("Defence", 0, 1) >>, back |-> << >>]]

\* The shipped effect catalog has no entry for any tile type.
TILE_EFFECTS == [k \in {} |-> NO_EFFECTS]

invert_actions(list) ==
  [i \in DOMAIN list |-> [kind |-> list[i].kind, offset |-> invert_offset(list[i].offset)]]

INVERTED_TILE_ACTIONS ==
  [k \in DOMAIN TILE_ACTIONS |->
     [front |-> invert_actions(TILE_ACTIONS[k].front),
      back  |-> invert_actions(TILE_ACTIONS[k].back)]]

INVERTED_TILE_EFFECTS ==
  [k \in DOMAIN TILE_EFFECTS |->
     [front |-> invert_actions(TILE_EFFECTS[k].front),
      back  |-> invert_actions(TILE_EFFECTS[k].back)]]

Tile_new(kind, color) == [kind |-> kind, flipped |-> FALSE, color |-> color]

flip(tile) == [tile EXCEPT !.flipped = ~@]

Tile_actions(tile) ==
  IF tile.color = Black THEN TILE_ACTIONS[tile.kind]
  ELSE INVERTED_TILE_ACTIONS[tile.kind]

Tile_effects(tile) ==
  IF tile.color = Black
  THEN IF tile.kind \in DOMAIN TILE_EFFECTS THEN TILE_EFFECTS[tile.kind] ELSE NO_EFFECTS
  ELSE IF tile.kind \in DOMAIN INVERTED_TILE_EFFECTS
       THEN INVERTED_TILE_EFFECTS[tile.kind] ELSE NO_EFFECTS

(* ----------------------------- game state ------------------------------- *)

Square_default == [effects |-> << >>, tile |-> None]

\* Mutant of init_tiles: one Pikeman is missing from the bag.
init_tiles_short(color) ==
  << Tile_new("Footman", color),
     Tile_new("Pikeman", color), Tile_new("Pikeman", color),
     Tile_new("Knight", color), Tile_new("Bowman", color), Tile_new("LightHorse", color),
     Tile_new("Wizard", color), Tile_new("Seer", color), Tile_new("Champion", color),
     Tile_new("Arbalist", color), Tile_new("General", color), Tile_new("Marshall", color),
     Tile_new("Countess", color), Tile_new("Ranger", color), Tile_new("Sage", color),
     Tile_new("RoyalAssassin", color) >>

init_tiles(color) ==
  << Tile_new("Footman", color),
     Tile_new("Pikeman", color), Tile_new("Pikeman", color), Tile_new("Pikeman", color),
     Tile_new("Knight", color), Tile_new("Bowman", color), Tile_new("LightHorse", color),
     Tile_new("Wizard", color), Tile_new("Seer", color), Tile_new("Champion", color),
     Tile_new("Arbalist", color), Tile_new("General", color), Tile_new("Marshall", color),
     Tile_new("Countess", color), Tile_new("Ranger", color), Tile_new("Sage", color),
     Tile_new("RoyalAssassin", color) >>

\* GameState::new()
GameState_new ==
  [board       |-> [y \in 0..(HEIGHT - 1) |-> [x \in 0..(WIDTH - 1) |-> Square_default]],
   bags        |-> [c \in TileColor |-> init_tiles(c)],
   drawn_tiles |-> [c \in TileColor |->
                     << Tile_new("Footman", c), Tile_new("Footman", c), Tile_new("Duke", c) >>],
   graveyard   |-> << >>,
   ply         |-> Black,
   game_over   |-> None,
   dukes       |-> [c \in TileColor |-> None]]

opponent(color) == IF color = Black THEN White ELSE Black

bag(state) == state.bags[state.ply]

drawn(state) == state.drawn_tiles[state.ply]

own_duke_pos(state) == state.dukes[state.ply]

square(state, cord) == state.board[cord.y][cord.x]

has_effect(sq, effect) == \E i \in DOMAIN sq.effects : sq.effects[i] = effect

(* --------------------------- path predicates ---------------------------- *)

tile_can_act(state, tile) ==
  ~(has_effect(square(state, tile[1]), "Dread") /\ tile[2].kind # "Duke")

abs(v) == IF v < 0 THEN -v ELSE v

straight_path(start, end) ==
  \/ start.x = end.x
  \/ start.y = end.y
  \/ abs(end.x - start.x) = abs(end.y - start.y)

\* An occupied square whose tile has the given colour.
same_color_on(sq, tile_color) == is_some(sq.tile) /\ tile_color = unwrap(sq.tile).color

\* The loop of path_blocked over a straight path, from the square after cord.
RECURSIVE straight_blocked(_, _, _, _, _, _)
straight_blocked(state, tile_color, action_type, cord, dir, end) ==
  LET c  == Coordinate(as_u8(cord.x + dir.x), as_u8(cord.y + dir.y))
      sq == square(state, c)
  IN  IF has_effect(sq, "Defence") THEN TRUE
      ELSE IF c # end
           THEN IF action_type = "Move" /\ is_some(sq.tile) THEN TRUE
                ELSE straight_blocked(state, tile_color, action_type, c, dir, end)
           ELSE same_color_on(sq, tile_color)

\* Second-axis loop of the non_straight_blocked closure.
RECURSIVE second_axis_blocked(_, _, _, _, _, _, _)
second_axis_blocked(state, tile_color, action_type, x_first, cord, dir, end) ==
  LET c  == IF x_first THEN Coordinate(cord.x, as_u8(cord.y + dir.y))
            ELSE Coordinate(as_u8(cord.x + dir.x), cord.y)
      sq == square(state, c)
  IN  IF has_effect(sq, "Defence") THEN TRUE
      ELSE IF (x_first /\ c.y # end.y) \/ (~x_first /\ c.x # end.x)
           THEN IF action_type = "Move" /\ is_some(sq.tile) THEN TRUE
                ELSE second_axis_blocked(state, tile_color, action_type, x_first, c, dir, end)
           ELSE same_color_on(sq, tile_color)

\* First-axis loop of the non_straight_blocked closure.
RECURSIVE non_straight_blocked(_, _, _, _, _, _, _)
non_straight_blocked(state, tile_color, action_type, x_first, cord, dir, end) ==
  LET c  == IF x_first THEN Coordinate(as_u8(cord.x + dir.x), cord.y)
            ELSE Coordinate(cord.x, as_u8(cord.y + dir.y))
      sq == square(state, c)
  IN  IF has_effect(sq, "Defence") THEN TRUE
      ELSE IF action_type = "Move" /\ is_some(sq.tile) THEN TRUE
      ELSE IF (x_first /\ c.x = end.x) \/ (~x_first /\ c.y = end.y)
           THEN second_axis_blocked(state, tile_color, action_type, x_first, c, dir, end)
           ELSE non_straight_blocked(state, tile_color, action_type, x_first, c, dir, end)

path_blocked(state, tile_color, action_type, start, end) ==
  LET dir == get_direction(start, end)
  IN  IF straight_path(start, end)
      THEN straight_blocked(state, tile_color, action_type, start, dir, end)
      ELSE /\ non_straight_blocked(state, tile_color, action_type, TRUE, start, dir, end)
           /\ non_straight_blocked(state, tile_color, action_type, FALSE, start, dir, end)

(* -------------------------- action enumeration -------------------------- *)

\* Action::Move/Jump/JumpSlide/Slide/Strike(ActionData { tile_pos, target_pos, result })
ActionData(type, tile_pos, target_pos, result) ==
  [type |-> type, tile_pos |-> tile_pos, target_pos |-> target_pos, result |-> result]

\* Action::Command(CommandActionData { tile_pos, command_tile_pos, target_pos, result })
CommandActionData(tile_pos, command_tile_pos, target_pos, result) ==
  [type |-> "Command", tile_pos |-> tile_pos, command_tile_pos |-> command_tile_pos,
   target_pos |-> target_pos, result |-> result]

\* Action::PlaceNew(Coordinate)
PlaceNew(cord) == [type |-> "PlaceNew", cord |-> cord]

\* Action::NewFromBag
NewFromBag == [type |-> "NewFromBag"]

\* Shared body of get_move_action and get_jump_action: Option<Action>.
get_step_action(state, tile, target, type) ==
  IF path_blocked(state, tile[2].color, type, tile[1], target) THEN None
  ELSE LET sq == square(state, target)
       IN  IF is_some(sq.tile)
           THEN IF tile[2].color # unwrap(sq.tile).color
                THEN Some(ActionData(type, tile[1], target, "Capture"))
                ELSE None
           ELSE Some(ActionData(type, tile[1], target, "Move"))

get_move_action(state, tile, target) == get_step_action(state, tile, target, "Move")

get_jump_action(state, tile, target) == get_step_action(state, tile, target, "Jump")

get_strike_action(state, tile, target) ==
  IF path_blocked(state, tile[2].color, "Jump", tile[1], target) THEN None
  ELSE LET sq == square(state, target)
       IN  IF is_some(sq.tile) /\ tile[2].color # unwrap(sq.tile).color
           THEN Some(ActionData("Strike", tile[1], target, "Capture"))
           ELSE None

\* Mutant of slide_loop: a tile of the slider's own colour does not stop the
\* slide.
RECURSIVE slide_loop_through(_, _, _, _, _, _, _)
slide_loop_through(state, tile, jumpslide, dir, x, y, actions) ==
  IF ~(x < WIDTH /\ y < HEIGHT) THEN actions
  ELSE LET sq   == state.board[y][x]
           type == IF jumpslide THEN "JumpSlide" ELSE "Slide"
       IN  IF has_effect(sq, "Defence") THEN actions
           ELSE IF is_some(sq.tile) /\ tile[2].color # unwrap(sq.tile).color
                THEN Append(actions, ActionData(type, tile[1], Coordinate(x, y), "Capture"))
                ELSE slide_loop_through(state, tile, jumpslide, dir,
                                        as_u8(x + dir.x), as_u8(y + dir.y),
                                        IF is_some(sq.tile) THEN actions
                                        ELSE Append(actions, ActionData(type, tile[1], Coordinate(x, y), "Move")))

\* Mutant of slide_loop: a Defence effect does not end the slide.
RECURSIVE slide_loop_no_defence(_, _, _, _, _, _, _)
slide_loop_no_defence(state, tile, jumpslide, dir, x, y, actions) ==
  IF ~(x < WIDTH /\ y < HEIGHT) THEN actions
  ELSE LET sq   == state.board[y][x]
           type == IF jumpslide THEN "JumpSlide" ELSE "Slide"
       IN  IF is_some(sq.tile)
           THEN IF tile[2].color # unwrap(sq.tile).color
                THEN Append(actions, ActionData(type, tile[1], Coordinate(x, y), "Capture"))
                ELSE actions
           ELSE slide_loop_no_defence(state, tile, jumpslide, dir,
                                      as_u8(x + dir.x), as_u8(y + dir.y),
                                      Append(actions, ActionData(type, tile[1], Coordinate(x, y), "Move")))

\* The while loop of get_slide_actions.
RECURSIVE slide_loop(_, _, _, _, _, _, _)
slide_loop(state, tile, jumpslide, dir, x, y, actions) ==
  IF ~(x < WIDTH /\ y < HEIGHT) THEN actions
  ELSE LET sq   == state.board[y][x]
           type == IF jumpslide THEN "JumpSlide" ELSE "Slide"
       IN  IF has_effect(sq, "Defence") THEN actions
           ELSE IF is_some(sq.tile)
                THEN IF tile[2].color # unwrap(sq.tile).color
                     THEN Append(actions, ActionData(type, tile[1], Coordinate(x, y), "Capture"))
                     ELSE actions
                ELSE slide_loop(state, tile, jumpslide, dir,
                                as_u8(x + dir.x), as_u8(y + dir.y),
                                Append(actions, ActionData(type, tile[1], Coordinate(x, y), "Move")))

get_slide_actions(state, tile, jumpslide, start) ==
  IF jumpslide /\ path_blocked(state, tile[2].color, "Jump", tile[1], start) THEN << >>
  ELSE slide_loop(state, tile, jumpslide, get_direction(tile[1], start), start.x, start.y, << >>)

\* The side of the catalog entry that is active for a tile.
active_actions(tile) ==
  IF tile.flipped THEN Tile_actions(tile).back ELSE Tile_actions(tile).front

\* Mutant of command_squares: the squares of every available action count as
\* command squares.
RECURSIVE command_squares_any(_, _, _)
command_squares_any(tile, avail, i) ==
  IF i > Len(avail) THEN << >>
  ELSE LET a == avail[i]
           x == as_u8(tile[1].x + a.offset.x)
           y == as_u8(tile[1].y + a.offset.y)
       IN  (IF legal(x, y) THEN << Coordinate(x, y) >> ELSE << >>)
           \o command_squares_any(tile, avail, i + 1)

\* The push_cord closure of get_command_actions over the active side.
RECURSIVE command_squares(_, _, _)
command_squares(tile, avail, i) ==
  IF i > Len(avail) THEN << >>
  ELSE LET a == avail[i]
           x == as_u8(tile[1].x + a.offset.x)
           y == as_u8(tile[1].y + a.offset.y)
       IN  (IF a.kind = "Command" /\ legal(x, y) THEN << Coordinate(x, y) >> ELSE << >>)
           \o command_squares(tile, avail, i + 1)

\* Mutant of command_loop: the commanded square and the target are exchanged.
RECURSIVE command_loop_swapped(_, _, _, _, _)
command_loop_swapped(state, tile, target, cords, i) ==
  IF i > Len(cords) THEN << >>
  ELSE LET sq == square(state, cords[i])
       IN  (IF is_some(sq.tile)
            THEN IF unwrap(sq.tile).color # tile[2].color
                 THEN << CommandActionData(tile[1], cords[i], target, "Capture") >>
                 ELSE << >>
            ELSE << CommandActionData(tile[1], cords[i], target, "Move") >>)
           \o command_loop_swapped(state, tile, target, cords, i + 1)

\* Mutant of command_loop: a command square with a tile of the commander's
\* colour is a target as well.
RECURSIVE command_loop_onto_own(_, _, _, _, _)
command_loop_onto_own(state, tile, target, cords, i) ==
  IF i > Len(cords) THEN << >>
  ELSE LET sq == square(state, cords[i])
       IN  (IF is_some(sq.tile) /\ unwrap(sq.tile).color # tile[2].color
            THEN << CommandActionData(tile[1], target, cords[i], "Capture") >>
            ELSE << CommandActionData(tile[1], target, cords[i], "Move") >>)
           \o command_loop_onto_own(state, tile, target, cords, i + 1)

\* The final loop of get_command_actions over command_squares.
RECURSIVE command_loop(_, _, _, _, _)
command_loop(state, tile, target, cords, i) ==
  IF i > Len(cords) THEN << >>
  ELSE LET sq == square(state, cords[i])
       IN  (IF is_some(sq.tile)
            THEN IF unwrap(sq.tile).color # tile[2].color
                 THEN << CommandActionData(tile[1], target, cords[i], "Capture") >>
                 ELSE << >>
            ELSE << CommandActionData(tile[1], target, cords[i], "Move") >>)
           \o command_loop(state, tile, target, cords, i + 1)

get_command_actions(state, tile, target) ==
  LET command_square == square(state, target)
  IN  IF is_none(command_square.tile) THEN << >>
      ELSE IF unwrap(command_square.tile).color # tile[2].color THEN << >>
      ELSE command_loop(state, tile, target,
                        command_squares(tile, active_actions(tile[2]), 1), 1)

\* get_spawn_squares reaches panic!("Should be game over.")
spawn_squares_panic(state) ==
  /\ is_none(state.game_over)
  /\ is_none(own_duke_pos(state))
  /\ ~(drawn(state) # << >> /\ drawn(state)[Len(drawn(state))].kind = "Duke")

\* Mutant of check_n_add: the legality test is dropped, squares off the board
\* count as empty.
check_n_add_unchecked(state, x, y) ==
  IF ~legal(as_u8(x), as_u8(y)) THEN << [x |-> as_u8(x), y |-> as_u8(y)] >>
  ELSE IF is_none(square(state, Coordinate(as_u8(x), as_u8(y))).tile)
       THEN << Coordinate(as_u8(x), as_u8(y)) >> ELSE << >>

\* Mutant of check_n_add: a square with a tile counts as a spawn square.
check_n_add_occupied(state, x, y) ==
  IF legal(as_u8(x), as_u8(y)) THEN << Coordinate(as_u8(x), as_u8(y)) >> ELSE << >>

\* The check_n_add closure of get_spawn_squares.
check_n_add(state, x, y) ==
  IF legal(as_u8(x), as_u8(y)) /\ is_none(square(state, Coordinate(as_u8(x), as_u8(y))).tile)
  THEN << Coordinate(as_u8(x), as_u8(y)) >> ELSE << >>

get_spawn_squares(state) ==
  IF is_some(state.game_over) THEN << >>
  ELSE IF is_none(own_duke_pos(state))
       THEN IF drawn(state) # << >> /\ drawn(state)[Len(drawn(state))].kind = "Duke"
            THEN IF state.ply = Black
                 THEN << Coordinate(2, 0), Coordinate(3, 0) >>
                 ELSE << Coordinate(2, HEIGHT - 1), Coordinate(3, HEIGHT - 1) >>
            ELSE << >>
       ELSE LET duke_pos == unwrap(own_duke_pos(state))
            IN  check_n_add(state, duke_pos.x + 1, duke_pos.y)
                \o check_n_add(state, duke_pos.x - 1, duke_pos.y)
                \o check_n_add(state, duke_pos.x, duke_pos.y + 1)
                \o check_n_add(state, duke_pos.x, duke_pos.y - 1)

\* Body of the for loop of get_tile_actions for one available action.
available_action_actions(state, tile, action) ==
  LET x == as_u8(tile[1].x + action.offset.x)
      y == as_u8(tile[1].y + action.offset.y)
      target == Coordinate(x, y)
  IN  IF ~legal(x, y) THEN << >>
      ELSE CASE action.kind = "Move"      -> get_move_action(state, tile, target)
             [] action.kind = "Jump"      -> get_jump_action(state, tile, target)
             [] action.kind = "JumpSlide" -> get_slide_actions(state, tile, TRUE, target)
             [] action.kind = "Slide"     -> get_slide_actions(state, tile, FALSE, target)
             [] action.kind = "Command"   -> get_command_actions(state, tile, target)
             [] action.kind = "Strike"    -> get_strike_action(state, tile, target)

\* The for loop of get_tile_actions.
RECURSIVE tile_actions_loop(_, _, _, _)
tile_actions_loop(state, tile, avail, i) ==
  IF i > Len(avail) THEN << >>
  ELSE available_action_actions(state, tile, avail[i])
       \o tile_actions_loop(state, tile, avail, i + 1)

\* Mutant of get_tile_actions: game_over is not consulted.
get_tile_actions_unguarded(state, tile_pos) ==
  IF is_none(square(state, tile_pos).tile) THEN << >>
  ELSE LET tile == unwrap(square(state, tile_pos).tile)
       IN  IF ~tile_can_act(state, << tile_pos, tile >>) THEN << >>
           ELSE tile_actions_loop(state, << tile_pos, tile >>, active_actions(tile), 1)

get_tile_actions(state, tile_pos) ==
  IF is_some(state.game_over) THEN << >>
  ELSE IF is_none(square(state, tile_pos).tile) THEN << >>
  ELSE LET tile == unwrap(square(state, tile_pos).tile)
       IN  IF ~tile_can_act(state, << tile_pos, tile >>) THEN << >>
           ELSE tile_actions_loop(state, << tile_pos, tile >>, active_actions(tile), 1)

\* The nested y/x loops of get_actions, over row-major index i = y * WIDTH + x.
RECURSIVE board_actions_loop(_, _)
board_actions_loop(state, i) ==
  IF i >= WIDTH * HEIGHT THEN << >>
  ELSE LET cord == Coordinate(i % WIDTH, i \div WIDTH)
           sq   == square(state, cord)
       IN  (IF is_some(sq.tile) /\ unwrap(sq.tile).color = state.ply
            THEN get_tile_actions(state, cord) ELSE << >>)
           \o board_actions_loop(state, i + 1)

\* The for loop of get_actions over spawn_squares.
RECURSIVE place_new_actions(_, _)
place_new_actions(spawn_squares, i) ==
  IF i > Len(spawn_squares) THEN << >>
  ELSE << PlaceNew(spawn_squares[i]) >> \o place_new_actions(spawn_squares, i + 1)

\* Mutant of get_actions: no early return after the PlaceNew actions.
get_actions_no_return(state) ==
  IF is_some(state.game_over) THEN << >>
  ELSE LET spawn_squares == get_spawn_squares(state)
       IN  (IF drawn(state) # << >> THEN place_new_actions(spawn_squares, 1) ELSE << >>)
           \o (IF spawn_squares # << >> /\ bag(state) # << >>
               THEN << NewFromBag >> ELSE << >>)
           \o board_actions_loop(state, 0)

\* Mutant of get_actions: NewFromBag is offered without a spawn square.
get_actions_bag_anyway(state) ==
  IF is_some(state.game_over) THEN << >>
  ELSE LET spawn_squares == get_spawn_squares(state)
       IN  IF drawn(state) # << >> THEN place_new_actions(spawn_squares, 1)
           ELSE (IF bag(state) # << >> THEN << NewFromBag >> ELSE << >>)
                \o board_actions_loop(state, 0)

\* Mutant of get_actions: NewFromBag is appended after the tile actions.
get_actions_bag_last(state) ==
  IF is_some(state.game_over) THEN << >>
  ELSE LET spawn_squares == get_spawn_squares(state)
       IN  IF drawn(state) # << >> THEN place_new_actions(spawn_squares, 1)
           ELSE board_actions_loop(state, 0)
                \o (IF spawn_squares # << >> /\ bag(state) # << >>
                    THEN << NewFromBag >> ELSE << >>)

get_actions(state) ==
  IF is_some(state.game_over) THEN << >>
  ELSE LET spawn_squares == get_spawn_squares(state)
       IN  IF drawn(state) # << >> THEN place_new_actions(spawn_squares, 1)
           ELSE (IF spawn_squares # << >> /\ bag(state) # << >>
                 THEN << NewFromBag >> ELSE << >>)
                \o board_actions_loop(state, 0)

(* --------------------------- move application --------------------------- *)

active_effects(tile) ==
  IF ~tile.flipped THEN Tile_effects(tile).front ELSE Tile_effects(tile).back

set_tile(state, cord, tile) == [state EXCEPT !.board[cord.y][cord.x].tile = tile]

\* The for loop of add_tile_effects.
RECURSIVE add_effects_loop(_, _, _, _)
add_effects_loop(state, tile_pos, effects, i) ==
  IF i > Len(effects) THEN state
  ELSE LET effect_x == as_u8(tile_pos.x + effects[i].offset.x)
           effect_y == as_u8(tile_pos.y + effects[i].offset.y)
           next == IF legal(effect_x, effect_y)
                   THEN [state EXCEPT !.board[effect_y][effect_x].effects =
                                         Append(@, effects[i].kind)]
                   ELSE state
       IN  add_effects_loop(next, tile_pos, effects, i + 1)

add_tile_effects(state, tile_pos) ==
  add_effects_loop(state, tile_pos, active_effects(unwrap(square(state, tile_pos).tile)), 1)

\* Vec::swap_remove: the last element takes the place of the removed one.
swap_remove(vec, index) ==
  LET n == Len(vec)
  IN  IF index = n THEN SubSeq(vec, 1, n - 1)
      ELSE SubSeq(vec, 1, index - 1) \o << vec[n] >> \o SubSeq(vec, index + 1, n - 1)

\* Index of the first occurrence of kind in a square's effects, 0 if none.
first_index(effects, kind) ==
  IF \E i \in DOMAIN effects : effects[i] = kind
  THEN CHOOSE i \in DOMAIN effects :
         effects[i] = kind /\ \A j \in DOMAIN effects : effects[j] = kind => i <= j
  ELSE 0

\* The for loop of clear_tile_effects.
RECURSIVE clear_effects_loop(_, _, _, _)
clear_effects_loop(state, tile_pos, effects, i) ==
  IF i > Len(effects) THEN state
  ELSE LET effect_x == as_u8(tile_pos.x + effects[i].offset.x)
           effect_y == as_u8(tile_pos.y + effects[i].offset.y)
           next == IF legal(effect_x, effect_y)
                   THEN LET square_effects == state.board[effect_y][effect_x].effects
                            effect_idx == first_index(square_effects, effects[i].kind)
                        IN  IF effect_idx # 0
                            THEN [state EXCEPT !.board[effect_y][effect_x].effects =
                                                  swap_remove(square_effects, effect_idx)]
                            ELSE state
                   ELSE state
       IN  clear_effects_loop(next, tile_pos, effects, i + 1)

clear_tile_effects(state, tile_pos) ==
  clear_effects_loop(state, tile_pos, active_effects(unwrap(square(state, tile_pos).tile)), 1)

\* Mutant of capture: the captured tile is dropped instead of buried.
capture_lost(state, target_pos) ==
  LET s1 == clear_tile_effects(state, target_pos)
      captured == unwrap(square(s1, target_pos).tile)
  IN  IF captured.kind = "Duke"
      THEN [s1 EXCEPT !.dukes[opponent(s1.ply)] = None] ELSE s1

\* Mutant of capture: a captured Duke stays in the opponent's cache.
capture_keep_cache(state, target_pos) ==
  LET s1 == clear_tile_effects(state, target_pos)
      captured == unwrap(square(s1, target_pos).tile)
  IN  [s1 EXCEPT !.graveyard = Append(@, captured)]

\* The capture branch shared by the action arms: effects of the captured tile
\* are cleared, a captured Duke clears the opponent's cache, the captured tile
\* goes to the graveyard.
capture(state, target_pos) ==
  LET s1 == clear_tile_effects(state, target_pos)
      captured == unwrap(square(s1, target_pos).tile)
      s2 == IF captured.kind = "Duke"
            THEN [s1 EXCEPT !.dukes[opponent(s1.ply)] = None] ELSE s1
  IN  [s2 EXCEPT !.graveyard = Append(@, captured)]

\* The standard_action closure of do_unsafe_action.
standard_action(state, data) ==
  LET tile == flip(unwrap(square(state, data.tile_pos).tile))
      s1 == clear_tile_effects(state, data.tile_pos)
      s2 == set_tile(s1, data.tile_pos, None)
      s3 == IF data.result = "Capture" THEN capture(s2, data.target_pos) ELSE s2
      s4 == set_tile(s3, data.target_pos, Some(tile))
      s5 == add_tile_effects(s4, data.target_pos)
  IN  IF tile.kind = "Duke"
      THEN [s5 EXCEPT !.dukes[s5.ply] = Some(data.target_pos)] ELSE s5

\* Mutant of new_from_bag_action: falls through to the ply update.
new_from_bag_action_switch(state, index) ==
  LET tile == bag(state)[index + 1]
  IN  [state EXCEPT !.bags[state.ply] = swap_remove(@, index + 1),
                    !.drawn_tiles[state.ply] = Append(@, tile),
                    !.ply = opponent(@)]

\* Action::NewFromBag arm; index is floor(random * bag.len()).
new_from_bag_action(state, index) ==
  LET tile == bag(state)[index + 1]
  IN  [state EXCEPT !.bags[state.ply] = swap_remove(@, index + 1),
                    !.drawn_tiles[state.ply] = Append(@, tile)]

\* Mutant of place_new_action: the tile under the top of the drawn queue is
\* placed.
place_new_action_second(state, cord) ==
  LET d    == drawn(state)
      tile == IF Len(d) > 1 THEN d[Len(d) - 1] ELSE d[Len(d)]
      s1 == [state EXCEPT !.drawn_tiles[state.ply] =
                            IF Len(d) > 1 THEN SubSeq(d, 1, Len(d) - 2) \o << d[Len(d)] >>
                            ELSE << >>]
      s2 == IF tile.kind = "Duke" THEN [s1 EXCEPT !.dukes[s1.ply] = Some(cord)] ELSE s1
      s3 == set_tile(s2, cord, Some(tile))
  IN  add_tile_effects(s3, cord)

\* Mutant of place_new_action: the tile at the bottom of the drawn queue is
\* placed.
place_new_action_bottom(state, cord) ==
  LET d    == drawn(state)
      tile == d[1]
      s1 == [state EXCEPT !.drawn_tiles[state.ply] = Tail(d)]
      s2 == IF tile.kind = "Duke" THEN [s1 EXCEPT !.dukes[s1.ply] = Some(cord)] ELSE s1
      s3 == set_tile(s2, cord, Some(tile))
  IN  add_tile_effects(s3, cord)

\* Mutant of place_new_action: the placed tile also stays on the drawn queue.
place_new_action_copy(state, cord) ==
  LET d    == drawn(state)
      tile == d[Len(d)]
      s2 == IF tile.kind = "Duke" THEN [state EXCEPT !.dukes[state.ply] = Some(cord)] ELSE state
      s3 == set_tile(s2, cord, Some(tile))
  IN  add_tile_effects(s3, cord)

\* Action::PlaceNew arm.
place_new_action(state, cord) ==
  LET d    == drawn(state)
      tile == d[Len(d)]
      s1 == [state EXCEPT !.drawn_tiles[state.ply] = SubSeq(d, 1, Len(d) - 1)]
      s2 == IF tile.kind = "Duke" THEN [s1 EXCEPT !.dukes[s1.ply] = Some(cord)] ELSE s1
      s3 == set_tile(s2, cord, Some(tile))
  IN  add_tile_effects(s3, cord)

\* Mutant of command_action: the commanded tile is flipped as well.
command_action_flip_both(state, data) ==
  LET tile == flip(unwrap(square(state, data.command_tile_pos).tile))
      s1 == clear_tile_effects(state, data.tile_pos)
      s2 == clear_tile_effects(s1, data.tile_pos)
      s3 == set_tile(s2, data.command_tile_pos, None)
      s4 == IF data.result = "Capture" THEN capture(s3, data.target_pos) ELSE s3
      s5 == set_tile(s4, data.target_pos, Some(tile))
      s6 == set_tile(s5, data.tile_pos, Some(flip(unwrap(square(s5, data.tile_pos).tile))))
      s7 == add_tile_effects(s6, data.tile_pos)
  IN  add_tile_effects(s7, data.target_pos)

\* Action::Command arm.
command_action(state, data) ==
  LET tile == unwrap(square(state, data.command_tile_pos).tile)
      s1 == clear_tile_effects(state, data.tile_pos)
      s2 == clear_tile_effects(s1, data.tile_pos)
      s3 == set_tile(s2, data.command_tile_pos, None)
      s4 == IF data.result = "Capture" THEN capture(s3, data.target_pos) ELSE s3
      s5 == set_tile(s4, data.target_pos, Some(tile))
      s6 == set_tile(s5, data.tile_pos, Some(flip(unwrap(square(s5, data.tile_pos).tile))))
      s7 == add_tile_effects(s6, data.tile_pos)
  IN  add_tile_effects(s7, data.target_pos)

\* Mutant of strike_action: the striker keeps its side.
strike_action_unflipped(state, data) ==
  LET s1 == capture(state, data.target_pos)
      s2 == set_tile(s1, data.target_pos, None)
      s3 == clear_tile_effects(s2, data.tile_pos)
  IN  add_tile_effects(s3, data.tile_pos)

\* Action::Strike arm.
strike_action(state, data) ==
  LET s1 == capture(state, data.target_pos)
      s2 == set_tile(s1, data.target_pos, None)
      s3 == clear_tile_effects(s2, data.tile_pos)
      s4 == set_tile(s3, data.tile_pos, Some(flip(unwrap(square(s3, data.tile_pos).tile))))
  IN  add_tile_effects(s4, data.tile_pos)

\* Mutant of update_ply_and_game_over: a game-ending action keeps the ply.
update_ply_and_game_over_stay(state) ==
  LET s1 == [state EXCEPT !.ply = opponent(@)]
      new_tile == drawn(s1)
      won == [state EXCEPT !.game_over = Some(state.ply)]
  IN  IF is_none(own_duke_pos(s1))
      THEN IF ~(new_tile # << >> /\ new_tile[Len(new_tile)].kind = "Duke")
           THEN won ELSE s1
      ELSE IF Len(get_actions(s1)) = 0 THEN won ELSE s1

\* Mutant of update_ply_and_game_over: only the empty action list ends the game.
update_ply_and_game_over_actions_only(state) ==
  LET s1 == [state EXCEPT !.ply = opponent(@)]
  IN  IF Len(get_actions(s1)) = 0
      THEN [s1 EXCEPT !.game_over = Some(opponent(s1.ply))] ELSE s1

\* Mutant of update_ply_and_game_over: only a missing Duke ends the game.
update_ply_and_game_over_duke_only(state) ==
  LET s1 == [state EXCEPT !.ply = opponent(@)]
      new_tile == drawn(s1)
  IN  IF is_none(own_duke_pos(s1))
         /\ ~(new_tile # << >> /\ new_tile[Len(new_tile)].kind = "Duke")
      THEN [s1 EXCEPT !.game_over = Some(opponent(s1.ply))] ELSE s1

\* Mutant of update_ply_and_game_over: a side without a Duke plays on.
update_ply_and_game_over_no_duke_check(state) ==
  LET s1 == [state EXCEPT !.ply = opponent(@)]
  IN  IF is_some(own_duke_pos(s1)) /\ Len(get_actions(s1)) = 0
      THEN [s1 EXCEPT !.game_over = Some(opponent(s1.ply))] ELSE s1

\* "Update ply" and "Check if game over for new ply" at the end of do_unsafe_action.
update_ply_and_game_over(state) ==
  LET s1 == [state EXCEPT !.ply = opponent(@)]
      new_tile == drawn(s1)
      winner == Some(opponent(s1.ply))
  IN  IF is_none(own_duke_pos(s1))
      THEN IF ~(new_tile # << >> /\ new_tile[Len(new_tile)].kind = "Duke")
           THEN [s1 EXCEPT !.game_over = winner] ELSE s1
      ELSE IF Len(get_actions(s1)) = 0
           THEN [s1 EXCEPT !.game_over = winner] ELSE s1

\* do_unsafe_action(state, action); index is the random draw of NewFromBag.
do_unsafe_action(state, action, index) ==
  IF action.type = "NewFromBag" THEN new_from_bag_action(state, index)
  ELSE update_ply_and_game_over(
         CASE action.type = "PlaceNew" -> place_new_action(state, action.cord)
           [] action.type \in {"Move", "Jump", "JumpSlide", "Slide"} ->
                standard_action(state, action)
           [] action.type = "Command" -> command_action(state, action)
           [] action.type = "Strike" -> strike_action(state, action))

(* ------------------------- assertions and panics ------------------------- *)

\* get_actions panics: in get_spawn_squares, or at
\* debug_assert!(!spawn_squares.is_empty(), "Drawn tile but no spawn squares.").
get_actions_panics(state) ==
  /\ is_none(state.game_over)
  /\ \/ spawn_squares_panic(state)
     \/ drawn(state) # << >> /\ get_spawn_squares(state) = << >>

\* do_unsafe_action panics: an unwrap, expect, assert or out-of-range index of
\* the arm of the action fails, or the terminal check's get_actions panics.
do_unsafe_action_panics(state, action) ==
  LET holds(pos) == is_some(square(state, pos).tile)
      own(pos)   == unwrap(square(state, pos).tile).color = state.ply
      arm ==
        CASE action.type = "NewFromBag" -> bag(state) = << >>
          [] action.type = "PlaceNew" ->
               \/ drawn(state) = << >>
               \/ drawn(state)[Len(drawn(state))].color # state.ply
          [] action.type \in {"Move", "Jump", "JumpSlide", "Slide"} ->
               \/ ~holds(action.tile_pos)
               \/ ~own(action.tile_pos)
               \/ /\ action.result = "Capture"
                  /\ \/ ~holds(action.target_pos)
                     \/ action.target_pos = action.tile_pos
          [] action.type = "Command" ->
               \/ ~holds(action.tile_pos)
               \/ ~own(action.tile_pos)
               \/ ~holds(action.command_tile_pos)
               \/ /\ action.result = "Capture"
                  /\ \/ ~holds(action.target_pos)
                     \/ action.target_pos = action.command_tile_pos
               \/ /\ action.command_tile_pos = action.tile_pos
                  /\ action.target_pos # action.tile_pos
          [] action.type = "Strike" ->
               \/ ~holds(action.tile_pos)
               \/ ~own(action.tile_pos)
               \/ ~holds(action.target_pos)
               \/ action.target_pos = action.tile_pos
  IN  IF arm THEN TRUE
      ELSE IF action.type = "NewFromBag" THEN FALSE
      ELSE LET s == CASE action.type = "PlaceNew" -> place_new_action(state, action.cord)
                      [] action.type \in {"Move", "Jump", "JumpSlide", "Slide"} ->
                           standard_action(state, action)
                      [] action.type = "Command" -> command_action(state, action)
                      [] action.type = "Strike" -> strike_action(state, action)
               s1 == [s EXCEPT !.ply = opponent(@)]
           IN  is_some(own_duke_pos(s1)) /\ get_actions_panics(s1)

(* ------------------------------- the agent ------------------------------- *)

i32_MIN == -2147483647 - 1

i32_MAX == 2147483647

\* Agent { color, depth, duration }; a duration counts readings of the clock:
\* the clock advances one unit each time alpha_beta reads it.
Agent_new(color, depth, duration) == [color |-> color, depth |-> depth, duration |-> duration]

\* The assertion of Agent::new.
Agent_valid(a) == is_some(a.depth) \/ is_some(a.duration)

\* Data of an action that can capture.
is_data_action(a) == a.type \in {"Move", "Jump", "JumpSlide", "Slide", "Strike", "Command"}

\* The utility_from_actions closure of tile_utility.
RECURSIVE utility_from_actions(_, _)
utility_from_actions(actions, i) ==
  IF i > Len(actions) THEN 0
  ELSE (CASE actions[i].kind = "Move"      -> 1
          [] actions[i].kind = "Jump"      -> 3
          [] actions[i].kind = "JumpSlide" -> 4
          [] actions[i].kind = "Slide"     -> 2
          [] actions[i].kind = "Command"   -> 2
          [] actions[i].kind = "Strike"    -> 3
          [] OTHER                         -> 0)
       + utility_from_actions(actions, i + 1)

\* The utility_from_effects closure of tile_utility.
RECURSIVE utility_from_effects(_, _)
utility_from_effects(effects, i) ==
  IF i > Len(effects) THEN 0
  ELSE (CASE effects[i].kind = "Dread"   -> 1
          [] effects[i].kind = "Defence" -> 3)
       + utility_from_effects(effects, i + 1)

tile_utility(kind) ==
  IF kind = "Duke" THEN 1000
  ELSE utility_from_actions(TILE_ACTIONS[kind].front, 1)
       + utility_from_actions(TILE_ACTIONS[kind].back, 1)
       + (IF kind \in DOMAIN TILE_EFFECTS
          THEN utility_from_effects(TILE_EFFECTS[kind].front, 1)
               + utility_from_effects(TILE_EFFECTS[kind].back, 1)
          ELSE 0)

TILE_UTILITY == [kind \in TileType |-> tile_utility(kind)]

\* Utility of the tile an action captures.
capture_utility(state, a) == TILE_UTILITY[unwrap(square(state, a.target_pos).tile).kind]

\* action_cmp((state, a), (state, b)): "Less", "Equal" or "Greater".
action_cmp(state, a, b) ==
  IF a.type = "NewFromBag"
  THEN IF b.type = "NewFromBag" THEN "Equal"
       ELSE IF b.type = "PlaceNew" THEN "Less"
       ELSE IF b.result = "Capture" THEN "Less" ELSE "Equal"
  ELSE IF a.type = "PlaceNew"
  THEN IF b.type = "PlaceNew" THEN "Equal" ELSE "Greater"
  ELSE IF b.type = "PlaceNew" THEN "Less"
  ELSE IF b.type = "NewFromBag" THEN "Equal"
  ELSE IF a.result = "Capture"
       THEN IF b.result = "Capture"
            THEN IF capture_utility(state, a) < capture_utility(state, b) THEN "Less"
                 ELSE IF capture_utility(state, a) > capture_utility(state, b) THEN "Greater"
                 ELSE "Equal"
            ELSE "Less"
       ELSE "Equal"

\* The value of a one-element set; a value is bound to a name by drawing it
\* from such a set, so that it is computed once.
the(S) == CHOOSE v \in S : TRUE

\* insert_head of the standard stable sort: x moves behind the leading
\* elements of the sorted tail that compare Less than x.
RECURSIVE insert_head(_, _, _)
insert_head(state, x, tail) ==
  IF tail = << >> \/ action_cmp(state, tail[1], x) # "Less" THEN << x >> \o tail
  ELSE << tail[1] >> \o insert_head(state, x, Tail(tail))

\* actions.sort_by(action_cmp): insertion from the back, as the standard
\* library sorts short slices.
RECURSIVE sort_by(_, _, _)
sort_by(state, actions, i) ==
  IF i > Len(actions) THEN << >>
  ELSE the({insert_head(state, actions[i], tail) : tail \in {sort_by(state, actions, i + 1)}})

CHECK_MATE_UTIL == 100000

\* The check_mate closure of utility.
check_mate(agent, state, result, target_pos) ==
  IF result = "Capture" /\ unwrap(square(state, target_pos).tile).kind = "Duke"
  THEN IF unwrap(square(state, target_pos).tile).color = agent.color
       THEN IF state.ply = agent.color THEN -1000 ELSE -CHECK_MATE_UTIL
       ELSE IF state.ply = agent.color THEN CHECK_MATE_UTIL ELSE 1000
  ELSE 0

\* The loop of utility over the actions of one tile; stop is the early return.
RECURSIVE utility_actions_loop(_, _, _, _, _)
utility_actions_loop(agent, state, actions, i, u) ==
  IF i > Len(actions) THEN [u |-> u, stop |-> FALSE]
  ELSE the({IF abs(u2) >= CHECK_MATE_UTIL THEN [u |-> u2, stop |-> TRUE]
            ELSE utility_actions_loop(agent, state, actions, i + 1, u2) :
              u2 \in {u + (IF is_data_action(actions[i])
                           THEN check_mate(agent, state, actions[i].result,
                                           actions[i].target_pos)
                           ELSE 0)}})

\* The y/x loops of utility, over row-major index i, then the spawn squares.
RECURSIVE utility_board_loop(_, _, _, _)
utility_board_loop(agent, state, i, u) ==
  IF i >= WIDTH * HEIGHT THEN u + Len(get_spawn_squares(state)) * 5
  ELSE LET cord == Coordinate(i % WIDTH, i \div WIDTH)
           tile == square(state, cord).tile
       IN  IF is_none(tile) THEN utility_board_loop(agent, state, i + 1, u)
           ELSE the({IF r.stop THEN r.u
                     ELSE utility_board_loop(agent, state, i + 1,
                            IF unwrap(tile).color = agent.color
                            THEN r.u + TILE_UTILITY[unwrap(tile).kind]
                            ELSE r.u - TILE_UTILITY[unwrap(tile).kind]) :
                       r \in {utility_actions_loop(agent, state, actions, 1, u) :
                                actions \in {get_tile_actions(state, cord)}}})

utility(agent, state) ==
  IF is_some(state.game_over)
  THEN IF unwrap(state.game_over) = agent.color THEN 1000000 ELSE -1000000
  ELSE utility_board_loop(agent, state, 0, 0)

\* Bookkeeping of one search: clock readings, returns on an expired timer,
\* utility evaluations, those made once the timer was seen expired, leaves
\* cut by depth 0 in a running game, deepest frame, and loop breaks.
NoStats ==
  [ticks |-> 0, timeouts |-> 0, leaves |-> 0, late |-> 0, depth_cuts |-> 0,
   deepest |-> 0, prunes |-> 0]

\* One utility evaluation returned as (None, utility).
leaf(agent, state, st) ==
  the({[action |-> None, utility |-> u,
         st |-> [st EXCEPT !.leaves = @ + 1,
                           !.late = @ + (IF st.timeouts > 0 THEN 1 ELSE 0)]] :
         u \in {utility(agent, state)}})

RECURSIVE bag_utility(_, _)
bag_utility(tiles, i) ==
  IF i > Len(tiles) THEN 0 ELSE TILE_UTILITY[tiles[i].kind] + bag_utility(tiles, i + 1)

\* The NewFromBag arm of try_branch.
new_from_bag_branch(agent, state, st) ==
  the({[l EXCEPT !.utility = (bag_utility(bag(state), 1) \div Len(bag(state))) + @] :
         l \in {leaf(agent, state, st)}})

\* Mutant of branch_action: the action found by the child frame is kept when
\* there is one.
branch_action_of_child(action, child) ==
  IF is_some(child.action) THEN child.action ELSE Some(action)

\* best_action = Some(action): the action of this frame, not the child's.
branch_action(action, child) == Some(action)

\* Mutant of max_prune: the bound of the maximizer itself is compared.
max_prune_alpha(best_utility, alpha, beta) == best_utility >= alpha

\* The break of the maximizing loop.
max_prune(best_utility, alpha, beta) == best_utility >= beta

\* The break of the minimizing loop.
min_prune(best_utility, alpha, beta) == best_utility <= alpha

RECURSIVE alpha_beta(_, _, _, _, _, _, _, _, _)

\* Mutant of try_branch: NewFromBag is applied like any other action and the
\* search goes on with the first tile of the bag drawn.
try_branch_draw(agent, state, alpha, beta, depth, timer, max, action, st, level) ==
  the({alpha_beta(agent, new_state, alpha, beta, depth, timer, max, st, level) :
         new_state \in {do_unsafe_action(state, action, 0)}})

try_branch(agent, state, alpha, beta, depth, timer, max, action, st, level) ==
  IF action.type = "NewFromBag" THEN new_from_bag_branch(agent, state, st)
  ELSE the({alpha_beta(agent, new_state, alpha, beta, depth, timer, max, st, level) :
              new_state \in {do_unsafe_action(state, action, 0)}})

\* The loop of the maximizing branch of alpha_beta from action i on.
RECURSIVE max_loop(_, _, _, _, _, _, _, _, _, _, _, _)
max_loop(agent, state, actions, i, new_alpha, beta, depth, timer, best_action, best_utility, st, level) ==
  IF i > Len(actions) THEN [action |-> best_action, utility |-> best_utility, st |-> st]
  ELSE the({IF max_prune(n.utility, n.bound, beta)
            THEN [action |-> n.action, utility |-> n.utility,
                  st |-> [n.st EXCEPT !.prunes = @ + (IF i < Len(actions) THEN 1 ELSE 0)]]
            ELSE max_loop(agent, state, actions, i + 1, n.bound, beta, depth, timer,
                          n.action, n.utility, n.st, level) :
              n \in {IF r.utility > best_utility
                     THEN [action |-> branch_action(actions[i], r), utility |-> r.utility,
                           bound |-> IF r.utility > new_alpha THEN r.utility ELSE new_alpha,
                           st |-> r.st]
                     ELSE [action |-> best_action, utility |-> best_utility,
                           bound |-> new_alpha, st |-> r.st] :
                       r \in {try_branch(agent, state, new_alpha, beta, depth - 1, timer,
                                         FALSE, actions[i], st, level)}}})

\* The loop of the minimizing branch of alpha_beta from action i on.
RECURSIVE min_loop(_, _, _, _, _, _, _, _, _, _, _, _)
min_loop(agent, state, actions, i, alpha, new_beta, depth, timer, best_action, best_utility, st, level) ==
  IF i > Len(actions) THEN [action |-> best_action, utility |-> best_utility, st |-> st]
  ELSE the({IF min_prune(n.utility, alpha, n.bound)
            THEN [action |-> n.action, utility |-> n.utility,
                  st |-> [n.st EXCEPT !.prunes = @ + (IF i < Len(actions) THEN 1 ELSE 0)]]
            ELSE min_loop(agent, state, actions, i + 1, alpha, n.bound, depth, timer,
                          n.action, n.utility, n.st, level) :
              n \in {IF r.utility < best_utility
                     THEN [action |-> branch_action(actions[i], r), utility |-> r.utility,
                           bound |-> IF r.utility < new_beta THEN r.utility ELSE new_beta,
                           st |-> r.st]
                     ELSE [action |-> best_action, utility |-> best_utility,
                           bound |-> new_beta, st |-> r.st] :
                       r \in {try_branch(agent, state, alpha, new_beta, depth - 1, timer,
                                         TRUE, actions[i], st, level)}}})

\* Mutant of alpha_beta: only the root frame looks at the timer.
alpha_beta_root_timer(agent, state, alpha, beta, depth, timer, max, st, level) ==
  LET st1 == [st EXCEPT !.ticks = @ + (IF is_some(timer) THEN 1 ELSE 0),
                        !.deepest = IF level > @ THEN level ELSE @]
  IN  IF is_some(timer) /\ st.ticks >= unwrap(timer) /\ level = 0
      THEN leaf(agent, state, [st1 EXCEPT !.timeouts = @ + 1])
      ELSE IF depth = 0 \/ is_some(state.game_over)
      THEN leaf(agent, state,
                [st1 EXCEPT !.depth_cuts = @ + (IF is_none(state.game_over) THEN 1 ELSE 0)])
      ELSE the({IF max
                THEN max_loop(agent, state, actions, 1, alpha, beta, depth, timer, None,
                              i32_MIN, st1, level + 1)
                ELSE min_loop(agent, state, actions, 1, alpha, beta, depth, timer, None,
                              i32_MAX, st1, level + 1) :
                  actions \in {sort_by(state, unsorted, 1) :
                                 unsorted \in {get_actions(state)}}})

\* Mutant of alpha_beta: the search is cut one frame early, at depth 1.
alpha_beta_shallow(agent, state, alpha, beta, depth, timer, max, st, level) ==
  LET st1 == [st EXCEPT !.ticks = @ + (IF is_some(timer) THEN 1 ELSE 0),
                        !.deepest = IF level > @ THEN level ELSE @]
  IN  IF is_some(timer) /\ st.ticks >= unwrap(timer)
      THEN leaf(agent, state, [st1 EXCEPT !.timeouts = @ + 1])
      ELSE IF depth <= 1 \/ is_some(state.game_over)
      THEN leaf(agent, state,
                [st1 EXCEPT !.depth_cuts = @ + (IF is_none(state.game_over) THEN 1 ELSE 0)])
      ELSE the({IF max
                THEN max_loop(agent, state, actions, 1, alpha, beta, depth, timer, None,
                              i32_MIN, st1, level + 1)
                ELSE min_loop(agent, state, actions, 1, alpha, beta, depth, timer, None,
                              i32_MAX, st1, level + 1) :
                  actions \in {sort_by(state, unsorted, 1) :
                                 unsorted \in {get_actions(state)}}})

\* alpha_beta(agent, state, alpha, beta, depth, timer, max): (action, utility)
\* and the bookkeeping; level is the number of frames above this one.
alpha_beta(agent, state, alpha, beta, depth, timer, max, st, level) ==
  LET st1 == [st EXCEPT !.ticks = @ + (IF is_some(timer) THEN 1 ELSE 0),
                        !.deepest = IF level > @ THEN level ELSE @]
  IN  IF is_some(timer) /\ st.ticks >= unwrap(timer)
      THEN leaf(agent, state, [st1 EXCEPT !.timeouts = @ + 1])
      ELSE IF depth = 0 \/ is_some(state.game_over)
      THEN leaf(agent, state,
                [st1 EXCEPT !.depth_cuts = @ + (IF is_none(state.game_over) THEN 1 ELSE 0)])
      ELSE the({IF max
                THEN max_loop(agent, state, actions, 1, alpha, beta, depth, timer, None,
                              i32_MIN, st1, level + 1)
                ELSE min_loop(agent, state, actions, 1, alpha, beta, depth, timer, None,
                              i32_MAX, st1, level + 1) :
                  actions \in {sort_by(state, unsorted, 1) :
                                 unsorted \in {get_actions(state)}}})

\* The depth alpha_beta_search uses when the agent has none.
default_depth == 4

\* Mutant of search_depth: an agent without depth searches one ply deeper.
search_depth_deeper(agent) ==
  IF is_some(agent.depth) THEN unwrap(agent.depth) ELSE default_depth + 1

search_depth(agent) == IF is_some(agent.depth) THEN unwrap(agent.depth) ELSE default_depth

\* alpha_beta_search with the bookkeeping of the search it ran.
alpha_beta_search(agent, state) ==
  alpha_beta(agent, state, i32_MIN, i32_MAX, search_depth(agent), agent.duration, TRUE,
             NoStats, 0)

get_action(agent, state) == alpha_beta_search(agent, state).action

(* ------------------------------ the game -------------------------------- *)

VARIABLES board, bags, drawn_tiles, graveyard, ply, game_over, dukes, last, steps,
          agent, answer

vars == << board, bags, drawn_tiles, graveyard, ply, game_over, dukes, last, steps,
           agent, answer >>

\* The GameState value held by the variables.
State ==
  [board |-> board, bags |-> bags, drawn_tiles |-> drawn_tiles, graveyard |-> graveyard,
   ply |-> ply, game_over |-> game_over, dukes |-> dukes]

Range(seq) == {seq[i] : i \in 1..Len(seq)}

Min(a, b) == IF a < b THEN a ELSE b

\* One scripted action: the action and the random index it is applied with.
Step(action, index) == [action |-> action, index |-> index]

\* The states a script passes through from GameState::new(); the script stops
\* at the first action that get_actions does not offer.
RECURSIVE replay(_, _)
replay(states, script) ==
  LET s == states[Len(states)]
      i == Len(states)
  IN  IF i > Len(script) THEN states
      ELSE IF script[i].action \in Range(get_actions(s))
           THEN replay(Append(states, do_unsafe_action(s, script[i].action, script[i].index)),
                       script)
           ELSE states

place(x, y) == Step(PlaceNew(Coordinate(x, y)), 0)

draw(index) == Step(NewFromBag, index)

move(type, x1, y1, x2, y2, result) ==
  Step(ActionData(type, Coordinate(x1, y1), Coordinate(x2, y2), result), 0)

\* The six PlaceNew actions of the opening deployment, Dukes on (2,0) and (3,5).
OpeningDeploy ==
  << place(2, 0), place(3, 5), place(2, 1), place(2, 5), place(1, 0), place(4, 5) >>

\* After the deployment the Black Duke slides under the White Duke's file.
DukeRaid == OpeningDeploy \o << move("Slide", 2, 0, 3, 0, "Move") >>

\* Black draws the Countess (bag slot 13) and places it beside its Duke, whose
\* three neighbours are then all occupied.
CountessLine ==
  << place(2, 0), place(2, 5), place(2, 1), place(2, 4), place(1, 0), place(1, 5),
     draw(13), place(3, 0) >>

\* The Countess line after White has slid its Duke aside: Black is to move and
\* its Countess on (3,0) can command the Black Duke on (2,0).
CountessReply == CountessLine \o << move("Slide", 2, 5, 3, 5, "Move") >>

\* Black draws the Champion (bag slot 9) and jumps it in front of the White
\* Footman and Duke.
ChampionLine ==
  << place(2, 0), place(2, 5), place(1, 0), place(2, 4), place(3, 0), place(1, 5),
     draw(9), place(2, 1), move("Move", 1, 5, 0, 5, "Move"),
     move("Jump", 2, 1, 2, 3, "Move") >>

\* Black's Duke retires to the corner behind a Royal Assassin while White's
\* footman hunts the Black footmen; White can then capture the last one on
\* (1,0), which leaves Black without any legal action.
StalemateLine ==
  << place(2, 0), place(2, 5), place(2, 1), place(2, 4), place(3, 0), place(1, 5),
     move("Slide", 2, 0, 0, 0, "Move"), move("Move", 2, 4, 2, 3, "Move"),
     draw(16), place(0, 1), move("Move", 2, 3, 2, 1, "Capture"),
     move("Move", 3, 0, 2, 0, "Move"), move("Move", 2, 1, 3, 1, "Move"),
     move("Move", 2, 0, 1, 1, "Move"), move("Move", 3, 1, 2, 0, "Move"),
     move("Move", 1, 1, 1, 0, "Move") >>

\* Black draws the General (bag slot 11) and moves it forward onto its back
\* side; a White Footman comes to stand on (1,2) and a Black Footman on (3,1),
\* both squares the General on (2,2) commands.
CommandLine ==
  << place(2, 0), place(2, 5), place(1, 0), place(2, 4), place(3, 0), place(1, 5),
     draw(11), place(2, 1), move("Move", 2, 4, 2, 3, "Move"),
     move("Move", 2, 1, 2, 2, "Move"), move("Move", 2, 3, 1, 2, "Move"),
     move("Move", 3, 0, 3, 1, "Move"), move("Move", 1, 5, 0, 5, "Move") >>

\* Black draws a Pikeman (bag slot 1) and moves it onto its back side on
\* (3,2); the White Duke slides to (2,5) and down to (2,4), where the Pikeman
\* strikes.
StrikeLine ==
  << place(2, 0), place(3, 5), place(1, 0), place(4, 5), place(3, 0), place(3, 4),
     draw(1), place(2, 1), move("Slide", 3, 5, 2, 5, "Move"),
     move("Move", 2, 1, 3, 2, "Move"), move("Slide", 2, 5, 2, 4, "Move") >>

\* Legal action sequences from GameState::new() that behaviours start after.
Openings ==
  { << >>, SubSeq(OpeningDeploy, 1, 2), SubSeq(OpeningDeploy, 1, 4), OpeningDeploy,
    DukeRaid, CountessLine, CountessReply, ChampionLine, StalemateLine, CommandLine,
    StrikeLine }

NoAction == [action |-> [type |-> "None"], by |-> "None"]

\* The game after a legal action sequence from GameState::new().
Replayed(script) ==
  \E states \in {replay(<< GameState_new >>, script)} :
    LET n == Len(script)
        s == states[n + 1]
    IN  /\ Len(states) = n + 1
        /\ board = s.board
        /\ bags = s.bags
        /\ drawn_tiles = s.drawn_tiles
        /\ graveyard = s.graveyard
        /\ ply = s.ply
        /\ game_over = s.game_over
        /\ dukes = s.dukes
        /\ last = IF n = 0 THEN NoAction
                  ELSE [action |-> script[n].action, by |-> states[n].ply]
        /\ steps = 0

\* No agent takes part in the game played by the caller.
Init ==
  /\ \E script \in Openings : Replayed(script)
  /\ agent = None
  /\ answer = None

\* The caller's turn: apply an action that get_actions returned for this state.
Apply(action, index) ==
  /\ steps < MaxSteps
  /\  \E s \in {do_unsafe_action(State, action, index)} :
      /\ board' = s.board
      /\ bags' = s.bags
      /\ drawn_tiles' = s.drawn_tiles
      /\ graveyard' = s.graveyard
      /\ ply' = s.ply
      /\ game_over' = s.game_over
      /\ dukes' = s.dukes
      /\ last' = [action |-> action, by |-> ply]
      /\ steps' = steps + 1
      /\ UNCHANGED << agent, answer >>

DoNewFromBag ==
  /\ NewFromBag \in Range(get_actions(State))
  /\ \E index \in 0..(Min(Len(bags[ply]), MaxDraw) - 1) : Apply(NewFromBag, index)

DoPlaceNew ==
  \E a \in Range(get_actions(State)) : a.type = "PlaceNew" /\ Apply(a, 0)

DoStandardAction ==
  \E a \in Range(get_actions(State)) :
    a.type \in {"Move", "Jump", "JumpSlide", "Slide"} /\ Apply(a, 0)

DoCommand ==
  \E a \in Range(get_actions(State)) : a.type = "Command" /\ Apply(a, 0)

DoStrike ==
  \E a \in Range(get_actions(State)) : a.type = "Strike" /\ Apply(a, 0)

Next == DoNewFromBag \/ DoPlaceNew \/ DoStandardAction \/ DoCommand \/ DoStrike

Spec == Init /\ [][Next]_vars

(* ------------------------------ the search ------------------------------ *)

\* The stalemate line played to its end: the game is over.
StalemateEnd == StalemateLine \o << move("Move", 2, 0, 1, 0, "Capture") >>

\* Positions of the deployment, few actions each.
OpeningPositions == {<< >>, SubSeq(OpeningDeploy, 1, 2), SubSeq(OpeningDeploy, 1, 4)}

\* Positions after the deployment, one of them terminal.
MidgamePositions == {DukeRaid, CountessReply, ChampionLine, StalemateLine, StalemateEnd}

Depths(max_depth) == {Some(d) : d \in 0..max_depth}

ShortDurations == {Some(t) : t \in 0..MaxDuration}

\* Agents that Agent::new accepts.
Agents(depths, durations) ==
  {a \in {Agent_new(c, d, t) : c \in TileColor, d \in depths, t \in durations} :
     Agent_valid(a)}

\* The searches that are run: any agent on an opening position; on the other
\* positions an agent with a depth, or with a short duration only.
SearchCases ==
  (OpeningPositions
     \X Agents(Depths(MaxOpeningDepth) \cup {None},
               ShortDurations \cup {Some(LongDuration), None}))
  \cup (MidgamePositions
          \X (Agents(Depths(MaxMidgameDepth), ShortDurations \cup {Some(LongDuration), None})
               \cup Agents({None}, ShortDurations)))

SearchInit ==
  \E case \in SearchCases :
    /\ Replayed(case[1])
    /\ agent = case[2]
    /\ answer = None

\* The caller asks the agent for an action in the current state.
GetAction ==
  /\ answer = None
  /\ answer' = Some(alpha_beta_search(agent, State))
  /\ UNCHANGED << board, bags, drawn_tiles, graveyard, ply, game_over, dukes, last, steps,
                  agent >>

SearchNext == GetAction

SearchSpec == SearchInit /\ [][SearchNext]_vars

(* ------------------------- boards of one colour ------------------------- *)

\* Squares the Black Duke, the two opening Footmen and a tile drawn from the
\* bag are set on.
DukeSquares == {Coordinate(2, 0), Coordinate(3, 1)}

FirstFootmanSquares == {Coordinate(1, 2)}

SecondFootmanSquares == {Coordinate(4, 2), Coordinate(0, 5)}

DrawnTileSquares == {Coordinate(2, 2), Coordinate(3, 2), Coordinate(2, 4)}

\* GameState::new() with the given Black tiles set on the board, as the
\* PlaceNew arm sets them.
RECURSIVE with_tiles(_, _)
with_tiles(state, placed) ==
  IF placed = << >> THEN state
  ELSE LET cord == placed[1][1]
           tile == placed[1][2]
           s    == [state EXCEPT !.board[cord.y][cord.x].tile = Some(tile)]
       IN  with_tiles(IF tile.kind = "Duke" THEN [s EXCEPT !.dukes[tile.color] = Some(cord)]
                      ELSE s,
                      Tail(placed))

\* Black has deployed k of its three opening tiles and White nothing.
Deployed(k, duke, f1, f2) ==
  LET placed == << << duke, Tile_new("Duke", Black) >>, << f1, Tile_new("Footman", Black) >>,
                   << f2, Tile_new("Footman", Black) >> >>
      s      == with_tiles(GameState_new, SubSeq(placed, 1, k))
  IN  [s EXCEPT !.drawn_tiles[Black] = SubSeq(@, 1, 3 - k)]

\* Black has deployed and has set the tile of bag slot index on the board, on
\* either side.
OneColour(duke, duke_flipped, f1, f2, index, flipped, cord) ==
  LET s    == Deployed(3, duke, f1, f2)
      tile == [s.bags[Black][index + 1] EXCEPT !.flipped = flipped]
      t    == with_tiles(s, << << cord, tile >> >>)
  IN  [t EXCEPT !.bags[Black] = swap_remove(@, index + 1),
                !.board[duke.y][duke.x].tile = Some([unwrap(@) EXCEPT !.flipped = duke_flipped])]

\* States with Black tiles only and Black to move.
OneColourStates ==
  {Deployed(k, duke, f1, f2) :
     k \in 0..2, duke \in DukeSquares, f1 \in FirstFootmanSquares,
     f2 \in SecondFootmanSquares}
  \cup {OneColour(duke, duke_flipped, f1, f2, index, flipped, cord) :
          duke \in DukeSquares, duke_flipped \in BOOLEAN, f1 \in FirstFootmanSquares,
          f2 \in SecondFootmanSquares, index \in 0..(Len(init_tiles(Black)) - 1),
          flipped \in BOOLEAN, cord \in DrawnTileSquares}

\* The vertical reflection of a coordinate, or its rotation by 180 degrees.
turned(cord, rotated) ==
  Coordinate(IF rotated THEN WIDTH - 1 - cord.x ELSE cord.x, HEIGHT - 1 - cord.y)

recolored(tiles) == [i \in 1..Len(tiles) |-> [tiles[i] EXCEPT !.color = opponent(@)]]

\* The state with every tile recoloured and set on the turned square, the bags
\* and drawn queues recoloured and exchanged, and the other colour to move.
color_mirrored(state, rotated) ==
  [board       |-> [y \in 0..(HEIGHT - 1) |-> [x \in 0..(WIDTH - 1) |->
                     LET sq == square(state, turned(Coordinate(x, y), rotated))
                     IN  [sq EXCEPT !.tile = recolored(@)]]],
   bags        |-> [c \in TileColor |-> recolored(state.bags[opponent(c)])],
   drawn_tiles |-> [c \in TileColor |-> recolored(state.drawn_tiles[opponent(c)])],
   graveyard   |-> recolored(state.graveyard),
   ply         |-> opponent(state.ply),
   game_over   |-> state.game_over,
   dukes       |-> [c \in TileColor |->
                     LET d == state.dukes[opponent(c)]
                     IN  IF is_some(d) THEN Some(turned(unwrap(d), rotated)) ELSE None]]

\* An action with every coordinate turned.
turned_action(a, rotated) ==
  CASE a.type = "NewFromBag" -> a
    [] a.type = "PlaceNew"   -> PlaceNew(turned(a.cord, rotated))
    [] a.type = "Command"    ->
         CommandActionData(turned(a.tile_pos, rotated), turned(a.command_tile_pos, rotated),
                           turned(a.target_pos, rotated), a.result)
    [] OTHER                 ->
         ActionData(a.type, turned(a.tile_pos, rotated), turned(a.target_pos, rotated),
                    a.result)

MirrorInit ==
  /\ \E s \in OneColourStates :
       /\ board = s.board
       /\ bags = s.bags
       /\ drawn_tiles = s.drawn_tiles
       /\ graveyard = s.graveyard
       /\ ply = s.ply
       /\ game_over = s.game_over
       /\ dukes = s.dukes
  /\ last = NoAction
  /\ steps = 0
  /\ agent = None
  /\ answer = None

\* get_actions is asked in the state, then the state is replaced by its colour
\* mirror; answer keeps the actions of the state before.
Mirrored(rotated) ==
  /\ answer = None
  /\ last = NoAction
  /\ answer' = Some(get_actions(State))
  /\ \E s \in {color_mirrored(State, rotated)} :
       /\ board' = s.board
       /\ bags' = s.bags
       /\ drawn_tiles' = s.drawn_tiles
       /\ graveyard' = s.graveyard
       /\ ply' = s.ply
       /\ game_over' = s.game_over
       /\ dukes' = s.dukes
  /\ last' = [action |-> [type |-> IF rotated THEN "Rotate" ELSE "Reflect"], by |-> "None"]
  /\ UNCHANGED << steps, agent >>

MirrorNext == \E rotated \in BOOLEAN : Mirrored(rotated)

MirrorSpec == MirrorInit /\ [][MirrorNext]_vars

(* ------------------------------ properties ------------------------------ *)

Coords == {Coordinate(x, y) : x \in 0..(WIDTH - 1), y \in 0..(HEIGHT - 1)}

\* A tile of the given kind and colour stands on the square.
holds(s, cord, kind, color) ==
  /\ is_some(square(s, cord).tile)
  /\ unwrap(square(s, cord).tile).kind = kind
  /\ unwrap(square(s, cord).tile).color = color

count_in(vec, kind, color) ==
  Cardinality({i \in DOMAIN vec : vec[i].kind = kind /\ vec[i].color = color})

count_on_board(s, kind, color) ==
  Cardinality({c \in Coords : holds(s, c, kind, color)})

\* Occurrences of a (kind, colour) tile over board, bags, drawn queues and graveyard.
tile_count(s, kind, color) ==
  count_on_board(s, kind, color)
  + count_in(s.bags[Black], kind, color) + count_in(s.bags[White], kind, color)
  + count_in(s.drawn_tiles[Black], kind, color) + count_in(s.drawn_tiles[White], kind, color)
  + count_in(s.graveyard, kind, color)

count_on_board_color(s, color) ==
  Cardinality({c \in Coords : is_some(square(s, c).tile) /\ unwrap(square(s, c).tile).color = color})

duke_on_board(s, color) == \E c \in Coords : holds(s, c, "Duke", color)

top_is_duke(vec) == vec # << >> /\ vec[Len(vec)].kind = "Duke"

has_result(action) ==
  action.type \in {"Move", "Jump", "JumpSlide", "Slide", "Command", "Strike"}

\* C1: for each colour c, dukes[c] = Some(p) iff square p holds a Duke of
\* colour c, and dukes[c] = None iff no Duke of colour c is on the board.
DukeCacheConsistent ==
  \A c \in TileColor :
    /\ \A p \in Coords : (dukes[c] = Some(p)) <=> holds(State, p, "Duke", c)
    /\ is_none(dukes[c]) <=> ~duke_on_board(State, c)

\* C2: the multiset of (kind, colour) tiles over board, bags, drawn queues and
\* graveyard never changes: every kind keeps the count GameState::new() gave
\* it, 20 tiles per colour and 40 in all.
TileConservation ==
  /\ \A k \in TileType, c \in TileColor :
       tile_count(State, k, c) = tile_count(GameState_new, k, c)
  /\ \A c \in TileColor :
       count_on_board_color(State, c) + Len(bags[c]) + Len(drawn_tiles[c])
         + Cardinality({i \in DOMAIN graveyard : graveyard[i].color = c}) = 20

\* A capture has been applied: conservation is about more than the opening.
TileConservationWitness ==
  /\ graveyard # << >>
  /\ has_result(last.action) /\ last.action.result = "Capture"

\* C3: every action other than NewFromBag hands the move to the other colour,
\* also when it ends the game; NewFromBag leaves ply with the colour that drew.
PlyAlternation ==
  last # NoAction =>
    IF last.action.type = "NewFromBag" THEN ply = last.by ELSE ply = opponent(last.by)

\* A game-ending action has been applied.
PlyAlternationWitness ==
  /\ is_some(game_over)
  /\ last.action.type # "NewFromBag"
  /\ ply = opponent(last.by)

\* C4: once game_over is set, get_actions, get_tile_actions (for every
\* coordinate) and get_spawn_squares return the empty list, so no action can
\* be applied any more.
TerminalityAbsorbs ==
  is_some(game_over) =>
    /\ get_actions(State) = << >>
    /\ \A c \in Coords : get_tile_actions(State, c) = << >>
    /\ get_spawn_squares(State) = << >>
    /\ ~ENABLED Next

\* A finished game in which a tile of the side to move could still act if
\* game_over were not consulted.
TerminalityAbsorbsWitness ==
  /\ is_some(game_over)
  /\ \E c \in Coords :
       /\ is_some(square(State, c).tile)
       /\ unwrap(square(State, c).tile).color = ply
       /\ get_tile_actions([State EXCEPT !.game_over = None], c) # << >>

\* C5: a capturing action whose target held the opposing Duke (the tile it put
\* on the graveyard) sets game_over to the colour that moved, and get_actions
\* is empty afterwards.
DukeCaptureTerminal ==
  ( /\ has_result(last.action)
    /\ last.action.result = "Capture"
    /\ graveyard # << >>
    /\ graveyard[Len(graveyard)].kind = "Duke"
    /\ graveyard[Len(graveyard)].color = opponent(last.by) )
  => /\ game_over = Some(last.by)
     /\ get_actions(State) = << >>

\* The opposing Duke has just been captured.
DukeCaptureWitness ==
  /\ has_result(last.action)
  /\ last.action.result = "Capture"
  /\ graveyard # << >>
  /\ graveyard[Len(graveyard)].kind = "Duke"
  /\ graveyard[Len(graveyard)].color = opponent(last.by)

\* C6: after an action other than NewFromBag, game_over is set exactly when
\* the side now to move has no Duke on the board and no Duke on top of its
\* drawn queue, or has no legal action; the winner is the side not to move.
TerminalDetection ==
  (last # NoAction /\ last.action.type # "NewFromBag") =>
    /\ is_some(game_over) <=>
         \/ ~duke_on_board(State, ply) /\ ~top_is_duke(drawn_tiles[ply])
         \/ get_actions([State EXCEPT !.game_over = None]) = << >>
    /\ is_some(game_over) => unwrap(game_over) = opponent(ply)

\* The game has ended although the loser's Duke stands on the board: the side
\* to move has no legal action left.
TerminalDetectionWitness ==
  /\ is_some(game_over)
  /\ duke_on_board(State, ply)
  /\ ~top_is_duke(drawn_tiles[ply])
  /\ get_actions([State EXCEPT !.game_over = None]) = << >>
  /\ unwrap(game_over) = opponent(ply)
  /\ last.action.type # "NewFromBag"

\* C7: while the side to move holds a drawn tile, get_actions is exactly one
\* PlaceNew per spawn square, in the order of get_spawn_squares.
PlaceNewOnly ==
  (is_none(game_over) /\ drawn_tiles[ply] # << >>) =>
    LET acts == get_actions(State)
        spawn == get_spawn_squares(State)
    IN  /\ Len(acts) = Len(spawn)
        /\ \A i \in 1..Len(acts) : acts[i] = [type |-> "PlaceNew", cord |-> spawn[i]]

\* A drawn tile is waiting while the bag is not empty and a tile of the side
\* to move could otherwise act.
PlaceNewOnlyWitness ==
  /\ last.action.type = "NewFromBag"
  /\ steps > 0
  /\ is_none(game_over)
  /\ drawn_tiles[ply] # << >>
  /\ bags[ply] # << >>
  /\ Len(get_spawn_squares(State)) >= 2
  /\ \E c \in Coords :
       /\ is_some(square(State, c).tile)
       /\ unwrap(square(State, c).tile).color = ply
       /\ get_tile_actions(State, c) # << >>

\* Tiles of a colour that have left its drawn queue or bag for the board.
deployed(s, color) ==
  Cardinality({c \in Coords : is_some(square(s, c).tile) /\ unwrap(square(s, c).tile).color = color})
  + Cardinality({i \in DOMAIN s.graveyard : s.graveyard[i].color = color})

\* C8: after a NewFromBag of colour c the move stays with c, the game is not
\* over and the only actions offered are PlaceNew (at least one), so the next
\* action is a PlaceNew of c; once c has deployed its three opening tiles its
\* drawn queue holds at most one tile, and holds one only right after c's
\* NewFromBag.
TwoStageTurn ==
  /\ last.action.type = "NewFromBag" =>
       /\ ply = last.by
       /\ is_none(game_over)
       /\ get_actions(State) # << >>
       /\ \A a \in Range(get_actions(State)) : a.type = "PlaceNew"
  /\ \A c \in TileColor :
       deployed(State, c) >= 3 =>
         /\ Len(drawn_tiles[c]) <= 1
         /\ drawn_tiles[c] # << >> =>
              (last.action.type = "NewFromBag" /\ last.by = c /\ ply = c)

\* A tile was just drawn by a side whose tiles on the board could act.
TwoStageTurnWitness ==
  /\ last.action.type = "NewFromBag"
  /\ deployed(State, ply) >= 3
  /\ \E c \in Coords :
       /\ is_some(square(State, c).tile)
       /\ unwrap(square(State, c).tile).color = ply
       /\ get_tile_actions(State, c) # << >>

\* C9: NewFromBag moves exactly one tile from bags[ply] to the top of
\* drawn[ply]; board, graveyard, ply, game_over, dukes and the opponent's bag
\* and drawn queue are unchanged.
NewFromBagFrame ==
  [][ last'.action.type = "NewFromBag" =>
        /\ \E i \in DOMAIN bags[ply] :
             /\ drawn_tiles'[ply] = Append(drawn_tiles[ply], bags[ply][i])
             /\ Len(bags'[ply]) = Len(bags[ply]) - 1
             /\ \A k \in TileType :
                  count_in(bags'[ply], k, ply)
                    = count_in(bags[ply], k, ply) - (IF bags[ply][i].kind = k THEN 1 ELSE 0)
        /\ bags'[opponent(ply)] = bags[opponent(ply)]
        /\ drawn_tiles'[opponent(ply)] = drawn_tiles[opponent(ply)]
        /\ UNCHANGED << board, graveyard, ply, game_over, dukes >> ]_vars

\* A tile has been drawn from the bag.
NewFromBagFrameWitness ==
  /\ last.action.type = "NewFromBag"
  /\ Len(drawn_tiles[ply]) = 1
  /\ Len(bags[ply]) = 16

\* The tile actions of the tiles of the side to move, squares taken row by
\* row (y ascending) and within a row by x ascending.
RECURSIVE row_major_actions(_, _, _)
row_major_actions(s, x, y) ==
  IF y = HEIGHT THEN << >>
  ELSE IF x = WIDTH THEN row_major_actions(s, 0, y + 1)
  ELSE (IF is_some(s.board[y][x].tile) /\ unwrap(s.board[y][x].tile).color = s.ply
        THEN get_tile_actions(s, Coordinate(x, y)) ELSE << >>)
       \o row_major_actions(s, x + 1, y)

\* C10: with no drawn tile waiting, get_actions starts with one NewFromBag
\* iff there is a spawn square and the bag is not empty, and continues with
\* the tile actions of the mover's tiles in row-major order, none of which is
\* a NewFromBag.
NewFromBagFirst ==
  (is_none(game_over) /\ drawn_tiles[ply] = << >>) =>
    LET acts == get_actions(State)
        offered == get_spawn_squares(State) # << >> /\ bags[ply] # << >>
        tail == row_major_actions(State, 0, 0)
    IN  /\ acts = (IF offered THEN << [type |-> "NewFromBag"] >> ELSE << >>) \o tail
        /\ \A i \in 1..Len(tail) : tail[i].type # "NewFromBag"

\* NewFromBag is offered before the actions of tiles standing on two rows.
NewFromBagFirstWitness ==
  /\ steps > 0
  /\ is_none(game_over)
  /\ drawn_tiles[ply] = << >>
  /\ Len(get_actions(State)) > 1
  /\ get_actions(State)[1].type = "NewFromBag"
  /\ \E a, b \in Range(get_actions(State)) :
       /\ has_result(a) /\ has_result(b)
       /\ a.tile_pos.y < b.tile_pos.y

\* The empty squares orthogonally adjacent to the square on which the Duke of
\* the given colour stands.
duke_neighbours(s, color) ==
  {c \in Coords :
     /\ is_none(square(s, c).tile)
     /\ \E d \in Coords :
          /\ holds(s, d, "Duke", color)
          /\ abs(c.x - d.x) + abs(c.y - d.y) = 1}

\* C11: in a non-terminal state whose side to move has its Duke on the board,
\* get_spawn_squares lists exactly the empty squares orthogonally adjacent to
\* the square that holds that Duke, each once.
SpawnSquaresAdjacent ==
  (is_none(game_over) /\ duke_on_board(State, ply)) =>
    /\ Range(get_spawn_squares(State)) = duke_neighbours(State, ply)
    /\ Len(get_spawn_squares(State)) = Cardinality(duke_neighbours(State, ply))

\* The coordinate fields of an action.
coordinates_of(a) ==
  CASE a.type = "NewFromBag" -> {}
    [] a.type = "PlaceNew"   -> {a.cord}
    [] a.type = "Command"    -> {a.tile_pos, a.command_tile_pos, a.target_pos}
    [] OTHER                 -> {a.tile_pos, a.target_pos}

\* Every action get_actions and get_tile_actions (at any square) return.
all_offered_actions(s) ==
  Range(get_actions(s)) \cup UNION {Range(get_tile_actions(s, c)) : c \in Coords}

\* C18: every coordinate field of every action returned by get_actions and by
\* get_tile_actions at any board coordinate lies on the board, 0 <= x < 6 and
\* 0 <= y < 6.
CoordinateLegality ==
  \A a \in all_offered_actions(State) :
    \A c \in coordinates_of(a) :
      /\ c.x \in 0..(WIDTH - 1)
      /\ c.y \in 0..(HEIGHT - 1)

\* A tile of the side to move has an active offset that leaves the board, so
\* that the u8 cast of the target wraps, and still offers some action.
CoordinateLegalityWitness ==
  /\ steps > 0
  /\ \E c \in Coords :
       /\ is_some(square(State, c).tile)
       /\ unwrap(square(State, c).tile).color = ply
       /\ get_tile_actions(State, c) # << >>
       /\ \E i \in DOMAIN active_actions(unwrap(square(State, c).tile)) :
            LET off == active_actions(unwrap(square(State, c).tile))[i].offset
            IN  as_u8(c.x + off.x) >= WIDTH \/ as_u8(c.y + off.y) >= HEIGHT

sign(v) == IF v > 0 THEN 1 ELSE IF v < 0 THEN -1 ELSE 0

\* Number of steps from one square to another along a row, column or diagonal.
distance(from, to) ==
  IF abs(to.x - from.x) > abs(to.y - from.y) THEN abs(to.x - from.x) ELSE abs(to.y - from.y)

\* The squares strictly between two squares of a row, column or diagonal.
between(from, to) ==
  {[x |-> from.x + k * sign(to.x - from.x), y |-> from.y + k * sign(to.y - from.y)] :
     k \in 1..(distance(from, to) - 1)}

\* C19: no square strictly between tile_pos and target_pos of a Slide holds a
\* tile; for a Move that captures, the squares strictly between are empty and
\* target_pos holds a tile of the opposing colour.
PathBlockingLaw ==
  \A p \in Coords :
    \A a \in Range(get_tile_actions(State, p)) :
      /\ a.type = "Slide" =>
           \A c \in between(a.tile_pos, a.target_pos) : is_none(square(State, c).tile)
      /\ (a.type = "Move" /\ a.result = "Capture") =>
           /\ \A c \in between(a.tile_pos, a.target_pos) : is_none(square(State, c).tile)
           /\ is_some(square(State, a.target_pos).tile)
           /\ unwrap(square(State, a.target_pos).tile).color
                # unwrap(square(State, a.tile_pos).tile).color

\* A Slide over at least one empty square is offered while another tile's
\* Move captures across an empty square.
PathBlockingWitness ==
  /\ steps > 0
  /\ \E p \in Coords : \E a \in Range(get_tile_actions(State, p)) :
       a.type = "Slide" /\ distance(a.tile_pos, a.target_pos) >= 2
  /\ \E p \in Coords : \E a \in Range(get_tile_actions(State, p)) :
       a.type = "Move" /\ a.result = "Capture" /\ distance(a.tile_pos, a.target_pos) >= 2

\* C20: GameState::new() has an empty board without effects, Black to move,
\* no winner, an empty graveyard, no cached Duke, bags of 17 tiles of the
\* owner's colour (1 Footman, 3 Pikeman, one of each other kind but the
\* Duke), and get_actions returns PlaceNew((2,0)), PlaceNew((3,0)) in order.
InitialState ==
  (last = NoAction) =>
    /\ DOMAIN board = 0..5
    /\ \A y \in 0..5 : DOMAIN board[y] = 0..5
    /\ \A y \in 0..5 : \A x \in 0..5 : board[y][x] = [effects |-> << >>, tile |-> << >>]
    /\ ply = "Black"
    /\ game_over = << >>
    /\ graveyard = << >>
    /\ dukes = [c \in {"Black", "White"} |-> << >>]
    /\ \A c \in {"Black", "White"} :
         /\ Len(bags[c]) = 17
         /\ \A i \in 1..17 : bags[c][i].color = c /\ ~bags[c][i].flipped
         /\ count_in(bags[c], "Footman", c) = 1
         /\ count_in(bags[c], "Pikeman", c) = 3
         /\ \A k \in TileType \ {"Duke", "Footman", "Pikeman"} : count_in(bags[c], k, c) = 1
         /\ count_in(bags[c], "Duke", c) = 0
    /\ get_actions(State) = << [type |-> "PlaceNew", cord |-> [x |-> 2, y |-> 0]],
                               [type |-> "PlaceNew", cord |-> [x |-> 3, y |-> 0]] >>

\* The state right after GameState::new(), before any action.
InitialStateWitness ==
  /\ last = NoAction
  /\ steps = 0
  /\ Len(get_actions(State)) = 2

\* The record alpha_beta_search returned, once the agent has been asked.
Answer == unwrap(answer)

\* C12: get_action returns None or an action that get_actions offers in the
\* state the agent was asked in.
SearchLegality ==
  is_some(answer) =>
    \/ is_none(Answer.action)
    \/ unwrap(Answer.action) \in Range(get_actions(State))

\* The agent chose among at least three actions after looking two plies ahead.
SearchLegalityWitness ==
  /\ is_some(answer)
  /\ is_some(Answer.action)
  /\ Len(get_actions(State)) >= 3
  /\ Answer.st.deepest >= 2

\* C13: in a state that is not terminal and has a legal action, get_action
\* returns Some(action) for every agent Agent::new accepts.
NoneOnlyWhenTerminal ==
  (is_some(answer) /\ is_none(game_over) /\ get_actions(State) # << >>) =>
    is_some(Answer.action)

\* The depth limit of the search an agent runs.
depth_limit(a) == IF is_some(a.depth) THEN unwrap(a.depth) ELSE 4

\* C14 as stated: an agent with only a duration has no depth limit, its
\* recursion is cut only by the deadline or by terminal states.
DurationOnlyUnbounded ==
  (is_some(answer) /\ is_none(agent.depth)) => Answer.st.depth_cuts = 0

\* C14: the search never goes deeper than the agent's depth, or than 4 when
\* the agent has only a duration, and cuts running games exactly there; an
\* agent without duration never reads the clock; with a duration the search
\* returns on the timer at exactly the readings that follow the duration.
SearchBounds ==
  is_some(answer) =>
    /\ Answer.st.deepest <= depth_limit(agent)
    /\ Answer.st.depth_cuts > 0 => Answer.st.deepest = depth_limit(agent)
    /\ is_none(agent.duration) => Answer.st.ticks = 0 /\ Answer.st.timeouts = 0
    /\ is_some(agent.duration) =>
         Answer.st.timeouts = (IF Answer.st.ticks > unwrap(agent.duration)
                               THEN Answer.st.ticks - unwrap(agent.duration) ELSE 0)

\* An agent with only a duration that never expired was stopped by depth 4 in
\* running games.
SearchBoundsWitness ==
  /\ is_some(answer)
  /\ is_none(agent.depth)
  /\ Answer.st.timeouts = 0
  /\ Answer.st.depth_cuts > 0
  /\ Answer.st.deepest = 4

\* Value of a child in the unpruned minimax: the NewFromBag approximation, or
\* the minimax value of the state the action leads to.
RECURSIVE minimax(_, _, _, _)
minimax_branch(a, state, depth, max, action) ==
  IF action.type = "NewFromBag"
  THEN (bag_utility(bag(state), 1) \div Len(bag(state))) + utility(a, state)
  ELSE minimax(a, do_unsafe_action(state, action, 0), depth, max)

\* Unpruned minimax with the leaf rule of alpha_beta (depth 0 or game over).
minimax(a, state, depth, max) ==
  IF depth = 0 \/ is_some(state.game_over) THEN utility(a, state)
  ELSE LET values == {minimax_branch(a, state, depth - 1, ~max, action) :
                        action \in Range(get_actions(state))}
       IN  IF max
           THEN IF values = {} THEN i32_MIN
                ELSE CHOOSE v \in values : \A w \in values : w <= v
           ELSE IF values = {} THEN i32_MAX
                ELSE CHOOSE v \in values : \A w \in values : v <= w

\* C15: for an agent with a depth of at most 3 and no duration, the utility
\* alpha_beta returns from the full window equals the unpruned minimax value
\* of the same depth.
AlphaBetaSound ==
  (is_some(answer) /\ is_none(agent.duration) /\ unwrap(agent.depth) <= 3) =>
    Answer.utility = minimax(agent, State, unwrap(agent.depth), TRUE)

\* A search of depth 2 or 3 without duration that broke off loops early.
AlphaBetaSoundWitness ==
  /\ is_some(answer)
  /\ is_none(agent.duration)
  /\ unwrap(agent.depth) \in 2..3
  /\ Answer.st.prunes > 0
  /\ Answer.st.leaves >= 4

\* C16: once the timer has been seen expired the search evaluates at most one
\* more leaf before get_action returns.
DeadlineBound ==
  is_some(answer) => Answer.st.late <= 1

\* The actions get_actions offered before the state was mirrored.
ActionsBefore == Range(unwrap(answer))

\* A tile of the given kind stands on the board.
on_board(kind) ==
  \E c \in Coords : is_some(square(State, c).tile) /\ unwrap(square(State, c).tile).kind = kind

\* C17 as stated: the actions of the recoloured vertical reflection of a state
\* with only Black tiles are the reflected actions of the state, for every
\* tile type.
MirrorSymmetry ==
  last.action.type = "Reflect" =>
    Range(get_actions(State)) = {turned_action(a, FALSE) : a \in ActionsBefore}

\* C17: the actions of the recoloured state are the turned actions of the
\* state with only Black tiles, under the rotation by 180 degrees for every
\* tile type, and under the vertical reflection when no Countess is on the
\* board.
MirrorSymmetryTurned ==
  /\ last.action.type = "Rotate" =>
       Range(get_actions(State)) = {turned_action(a, TRUE) : a \in ActionsBefore}
  /\ (last.action.type = "Reflect" /\ ~on_board("Countess")) =>
       Range(get_actions(State)) = {turned_action(a, FALSE) : a \in ActionsBefore}

\* A rotated state in which the Countess commands, as it did before.
MirrorSymmetryWitness ==
  /\ last.action.type = "Rotate"
  /\ on_board("Countess")
  /\ \E a \in ActionsBefore : a.type = "Command"
  /\ \E a \in Range(get_actions(State)) : a.type = "Command"

\* C21: PlaceNew((3,0)) applied to GameState::new() leaves two Footmen in
\* drawn[Black], caches the Black Duke on (3,0), sets the Black Duke front
\* side up on (3,0) and nothing else on the board, hands the move to White
\* with the game running, and get_actions is then [PlaceNew((2,5)),
\* PlaceNew((3,5))].
ScenarioS2 ==
  [][(State = GameState_new /\ last'.action = PlaceNew(Coordinate(3, 0))) =>
       /\ drawn_tiles'[Black] = << Tile_new("Footman", Black), Tile_new("Footman", Black) >>
       /\ dukes'[Black] = Some(Coordinate(3, 0))
       /\ \A c \in Coords :
            board'[c.y][c.x].tile = IF c = Coordinate(3, 0)
                                    THEN Some(Tile_new("Duke", Black)) ELSE None
       /\ ply' = White
       /\ game_over' = None
       /\ get_actions([board |-> board', bags |-> bags', drawn_tiles |-> drawn_tiles',
                       graveyard |-> graveyard', ply |-> ply', game_over |-> game_over',
                       dukes |-> dukes'])
            = << PlaceNew(Coordinate(2, 5)), PlaceNew(Coordinate(3, 5)) >>]_vars

\* The first action of a game has been PlaceNew((3,0)).
ScenarioS2Witness ==
  /\ steps = 1
  /\ last = [action |-> PlaceNew(Coordinate(3, 0)), by |-> Black]
  /\ drawn_tiles[White] = GameState_new.drawn_tiles[White]
  /\ bags = GameState_new.bags

\* C22 as stated: the successive PlaceNew actions of a side pop its three
\* opening tiles in the order Footman, Footman, Duke.
OpeningPopOrderStated ==
  [][(last'.action.type = "PlaceNew" /\ bags[ply] = GameState_new.bags[ply]) =>
       unwrap(board'[last'.action.cord.y][last'.action.cord.x].tile).kind
         = << "Footman", "Footman", "Duke" >>[4 - Len(drawn_tiles[ply])]]_vars

\* C22: the successive PlaceNew actions of a side pop its three opening tiles
\* in the order Duke, Footman, Footman, each from the top of drawn[ply], and
\* the queue below the popped tile is kept.
OpeningPopOrder ==
  [][(last'.action.type = "PlaceNew" /\ bags[ply] = GameState_new.bags[ply]) =>
       /\ unwrap(board'[last'.action.cord.y][last'.action.cord.x].tile)
            = Tile_new(<< "Duke", "Footman", "Footman" >>[4 - Len(drawn_tiles[ply])], ply)
       /\ drawn_tiles'[ply] = SubSeq(GameState_new.drawn_tiles[ply], 1,
                                     Len(drawn_tiles[ply]) - 1)]_vars

\* A side has just placed the last of its three opening tiles.
OpeningPopOrderWitness ==
  /\ steps > 0
  /\ last.action.type = "PlaceNew"
  /\ last.by \in TileColor
  /\ drawn_tiles[last.by] = << >>
  /\ bags[last.by] = GameState_new.bags[last.by]

\* The squares of the board at the offsets of the active side of the tile on
\* pos, those of its Command actions or those of its other actions.
offset_squares(pos, command) ==
  LET avail == active_actions(unwrap(square(State, pos).tile))
  IN  {c \in Coords : \E i \in 1..Len(avail) :
         /\ (avail[i].kind = "Command") = command
         /\ c.x = pos.x + avail[i].offset.x
         /\ c.y = pos.y + avail[i].offset.y}

\* The Command actions of the tile on pos that move a tile of its colour from
\* one of its command squares to a square of targets that is empty (Move) or
\* holds a tile of the other colour (Capture).
commands_to(pos, targets) ==
  LET color == unwrap(square(State, pos).tile).color
  IN  {CommandActionData(pos, q, c, IF is_none(square(State, c).tile) THEN "Move" ELSE "Capture") :
         q \in {q \in offset_squares(pos, TRUE) : same_color_on(square(State, q), color)},
         c \in {c \in targets : ~same_color_on(square(State, c), color)}}

\* The number of times an action occurs in a list.
occurrences(actions, a) == Cardinality({i \in 1..Len(actions) : actions[i] = a})

\* C23 as stated: get_tile_actions yields one Command for every same-coloured
\* tile on a command square and every square at a non-command offset of the
\* commanding tile that is empty or holds an opposing tile.
CommandEnumerationStated ==
  is_none(game_over) =>
    \A pos \in Coords : is_some(square(State, pos).tile) =>
      \A a \in commands_to(pos, offset_squares(pos, FALSE)) :
        occurrences(get_tile_actions(State, pos), a) = 1

\* C23: the Command actions of get_tile_actions are, each once, a Command for
\* every same-coloured tile on a command square of the tile and every command
\* square of the tile that is empty (Move) or holds an opposing tile (Capture).
CommandEnumeration ==
  is_none(game_over) =>
    \A pos \in Coords : is_some(square(State, pos).tile) =>
      LET actions == get_tile_actions(State, pos)
      IN  /\ {a \in Range(actions) : a.type = "Command"}
               = commands_to(pos, offset_squares(pos, TRUE))
          /\ \A a \in commands_to(pos, offset_squares(pos, TRUE)) :
               occurrences(actions, a) = 1

\* A tile commands a tile of its colour both to an empty square and onto an
\* opposing tile.
CommandEnumerationWitness ==
  /\ steps > 0
  /\ \E pos \in Coords :
       /\ is_some(square(State, pos).tile)
       /\ \E a, b \in Range(get_tile_actions(State, pos)) :
            /\ a.type = "Command" /\ a.result = "Move"
            /\ b.type = "Command" /\ b.result = "Capture"

\* C25: a Command empties command_tile_pos, sets the commanded tile on
\* target_pos with its side unchanged, flips the commander and keeps it on
\* tile_pos, appends the tile that stood on target_pos to the graveyard exactly
\* when the result is Capture, and leaves the tile of every other square.
CommandApplication ==
  [][last'.action.type = "Command" =>
       LET cd == last'.action
       IN  /\ board'[cd.command_tile_pos.y][cd.command_tile_pos.x].tile = None
           /\ board'[cd.target_pos.y][cd.target_pos.x].tile
                = board[cd.command_tile_pos.y][cd.command_tile_pos.x].tile
           /\ board'[cd.tile_pos.y][cd.tile_pos.x].tile
                = Some([unwrap(board[cd.tile_pos.y][cd.tile_pos.x].tile)
                          EXCEPT !.flipped = ~@])
           /\ graveyard' = IF cd.result = "Capture"
                           THEN Append(graveyard,
                                       unwrap(board[cd.target_pos.y][cd.target_pos.x].tile))
                           ELSE graveyard
           /\ (cd.result = "Capture")
                = is_some(board[cd.target_pos.y][cd.target_pos.x].tile)
           /\ \A c \in Coords \ {cd.tile_pos, cd.command_tile_pos, cd.target_pos} :
                board'[c.y][c.x].tile = board[c.y][c.x].tile]_vars

\* A Command has just captured.
CommandApplicationWitness ==
  /\ steps > 0
  /\ last.action.type = "Command"
  /\ last.action.result = "Capture"
  /\ graveyard # << >>

\* C26: a Strike appends the opposing tile of target_pos to the graveyard and
\* empties target_pos, flips the striker and keeps it on tile_pos, clears the
\* dukes entry of the struck side exactly when the struck tile is a Duke, and
\* leaves the tile of every other square; every Strike of get_tile_actions
\* aims at a square that holds a tile of the other colour.
StrikeApplication ==
  /\ [](\A pos \in Coords : \A a \in Range(get_tile_actions(State, pos)) :
          a.type = "Strike" =>
            /\ is_some(square(State, a.target_pos).tile)
            /\ unwrap(square(State, a.target_pos).tile).color
                 # unwrap(square(State, pos).tile).color)
  /\ [][last'.action.type = "Strike" =>
          LET ad     == last'.action
              struck == unwrap(board[ad.target_pos.y][ad.target_pos.x].tile)
          IN  /\ struck.color = opponent(ply)
              /\ graveyard' = Append(graveyard, struck)
              /\ board'[ad.target_pos.y][ad.target_pos.x].tile = None
              /\ board'[ad.tile_pos.y][ad.tile_pos.x].tile
                   = Some([unwrap(board[ad.tile_pos.y][ad.tile_pos.x].tile)
                             EXCEPT !.flipped = ~@])
              /\ dukes'[struck.color] = IF struck.kind = "Duke" THEN None
                                        ELSE dukes[struck.color]
              /\ \A c \in Coords \ {ad.tile_pos, ad.target_pos} :
                   board'[c.y][c.x].tile = board[c.y][c.x].tile]_vars

\* A Strike has just taken the Duke of the side that is now to move.
StrikeApplicationWitness ==
  /\ steps > 0
  /\ last.action.type = "Strike"
  /\ graveyard # << >>
  /\ graveyard[Len(graveyard)].kind = "Duke"
  /\ is_none(dukes[ply])

NoAssertionFailure ==
  /\ ~spawn_squares_panic(State)
  /\ (drawn_tiles[ply] # << >> /\ is_none(game_over) => get_spawn_squares(State) # << >>)
  /\ ~get_actions_panics(State)
  /\ \A a \in Range(get_actions(State)) : ~do_unsafe_action_panics(State, a)

\* A tile has just been drawn with the Duke on the board and waits for its
\* spawn square, and a capture has been made earlier in the game.
NoAssertionFailureWitness ==
  /\ steps > 0
  /\ last.action = NewFromBag
  /\ is_some(dukes[ply])
  /\ drawn_tiles[ply] # << >>
  /\ graveyard # << >>
  /\ get_actions(State) # << >>

\* C28: every action that get_actions returns for a state, and every action
\* that get_tile_actions returns for any square of it, can be applied to that
\* state by do_unsafe_action without a failing assertion, unwrap or expect.
Applicability ==
  /\ \A a \in Range(get_actions(State)) : ~do_unsafe_action_panics(State, a)
  /\ \A pos \in Coords : \A a \in Range(get_tile_actions(State, pos)) :
       ~do_unsafe_action_panics(State, a)

(* --------------------------- constructed boards --------------------------- *)

\* The squares from pos in the direction of a unit offset, nearest first.
RECURSIVE ray(_, _)
ray(pos, offset) ==
  IF ~(pos.x + offset.x \in 0..(WIDTH - 1) /\ pos.y + offset.y \in 0..(HEIGHT - 1)) THEN << >>
  ELSE LET next == Coordinate(pos.x + offset.x, pos.y + offset.y)
       IN  << next >> \o ray(next, offset)

\* The rays of the Slide actions of the active side of a tile.
slide_rays(pos, tile) ==
  {ray(pos, a.offset) : a \in {b \in Range(active_actions(tile)) : b.kind = "Slide"}}

\* A Black General on (2,2), back side up, with a Black Footman on (3,2) and
\* at most one more Footman on a square the General commands.
CommandBoards ==
  LET general == [Tile_new("General", Black) EXCEPT !.flipped = TRUE]
      base    == << << Coordinate(2, 2), general >>,
                    << Coordinate(3, 2), Tile_new("Footman", Black) >> >>
      extras  == {<< >>}
                 \cup {<< << c, Tile_new("Footman", color) >> >> :
                         c \in {Coordinate(1, 2), Coordinate(2, 1), Coordinate(3, 1)},
                         color \in TileColor}
  IN  {[with_tiles(GameState_new, base \o extra) EXCEPT !.ply = color] :
         extra \in extras, color \in TileColor}

\* Tiles that slide, on a square and a side.
Sliders ==
  { << Coordinate(1, 2), Tile_new("Duke", Black) >>,
    << Coordinate(2, 1), [Tile_new("Duke", White) EXCEPT !.flipped = TRUE] >>,
    << Coordinate(2, 0), [Tile_new("Ranger", Black) EXCEPT !.flipped = TRUE] >> }

\* A slider, a Defence effect on square i of its ray r, and at most one
\* Footman on a square of that ray.
defence_boards(slider, r) ==
  { [with_tiles(GameState_new, << slider >> \o blocker)
       EXCEPT !.board[r[i].y][r[i].x].effects = << "Defence" >>] :
      i \in DOMAIN r,
      blocker \in {<< >>}
                  \cup {<< << r[j], Tile_new("Footman", color) >> >> :
                          j \in DOMAIN r, color \in TileColor} }

DefenceBoards ==
  UNION { UNION {defence_boards(slider, r) : r \in slide_rays(slider[1], slider[2])} :
          slider \in Sliders }

ScenarioBoards == CommandBoards \cup DefenceBoards

ScenarioInit ==
  /\ \E s \in ScenarioBoards :
       /\ board = s.board
       /\ bags = s.bags
       /\ drawn_tiles = s.drawn_tiles
       /\ graveyard = s.graveyard
       /\ ply = s.ply
       /\ game_over = s.game_over
       /\ dukes = s.dukes
  /\ last = NoAction
  /\ steps = 0
  /\ agent = None
  /\ answer = None

\* The caller asks for the actions of the tile on a square.
GetTileActions(pos) ==
  /\ answer = None
  /\ answer' = Some([pos |-> pos, actions |-> get_tile_actions(State, pos)])
  /\ UNCHANGED << board, bags, drawn_tiles, graveyard, ply, game_over, dukes, last, steps,
                  agent >>

ScenarioNext == \E pos \in Coords : GetTileActions(pos)

ScenarioSpec == ScenarioInit /\ [][ScenarioNext]_vars

\* C24: on the board of scenario S5 (a Black General on (2,2) with its back
\* side up, a Black Footman on (3,2), nothing else) get_tile_actions for (2,2)
\* returns at least one Command; each of its Commands has tile_pos (2,2),
\* command_tile_pos (3,2), a target_pos that is (2,2) plus a Command offset of
\* the General's back side, and the result Move when that square is empty.
ScenarioS5 ==
  LET general == [Tile_new("General", Black) EXCEPT !.flipped = TRUE]
      s5 == with_tiles(GameState_new,
                       << << Coordinate(2, 2), general >>,
                          << Coordinate(3, 2), Tile_new("Footman", Black) >> >>)
      offsets == {a.offset : a \in {b \in Range(TILE_ACTIONS.General.back) :
                                      b.kind = "Command"}}
  IN  (board = s5.board /\ is_some(answer) /\ unwrap(answer).pos = Coordinate(2, 2)) =>
        LET commands == {a \in Range(unwrap(answer).actions) : a.type = "Command"}
        IN  /\ commands # {}
            /\ \A a \in commands :
                 /\ a.tile_pos = Coordinate(2, 2)
                 /\ a.command_tile_pos = Coordinate(3, 2)
                 /\ \E o \in offsets : a.target_pos = Coordinate(2 + o.x, 2 + o.y)
                 /\ (is_none(square(State, a.target_pos).tile) => a.result = "Move")

\* The actions of the General of S5 have been asked for: the Footman can be
\* sent to (3,1), (2,1), (1,1) and (1,2).
ScenarioS5Witness ==
  /\ is_some(answer)
  /\ unwrap(answer).pos = Coordinate(2, 2)
  /\ \A c \in Coords :
       is_some(board[c.y][c.x].tile) <=> c \in {Coordinate(2, 2), Coordinate(3, 2)}
  /\ {a.target_pos : a \in {b \in Range(unwrap(answer).actions) : b.type = "Command"}}
       = {Coordinate(3, 1), Coordinate(2, 1), Coordinate(1, 1), Coordinate(1, 2)}

\* A square q = r[i] of a slide ray r of the tile on pos carries a Defence
\* effect and no square of the ray before q holds a tile.
defended(pos, r, i) ==
  /\ is_some(board[pos.y][pos.x].tile)
  /\ r \in slide_rays(pos, unwrap(board[pos.y][pos.x].tile))
  /\ i \in DOMAIN r
  /\ has_effect(board[r[i].y][r[i].x], "Defence")
  /\ \A j \in 1..(i - 1) : is_none(board[r[j].y][r[j].x].tile)

\* C27: when a square q of an otherwise clear slide ray of a tile carries a
\* Defence effect, get_tile_actions returns Slide actions on that ray only for
\* the squares strictly before q: no Slide to q, and no Slide to or capture of
\* a tile on q or beyond it.
DefenceBlocks ==
  is_some(answer) =>
    LET pos == unwrap(answer).pos
    IN  \A r \in {ray(pos, o) : o \in {Coordinate(dx, dy) : dx, dy \in -1..1}
                                       \ {Coordinate(0, 0)}} :
          \A i \in DOMAIN r :
            defended(pos, r, i) =>
              \A a \in Range(unwrap(answer).actions) :
                \A j \in DOMAIN r :
                  a.target_pos = r[j] =>
                    IF j < i THEN a.type = "Slide" /\ a.result = "Move"
                    ELSE a.type # "Slide" /\ a.result # "Capture"

\* The actions of a slider have been asked for: Defence lies on the third
\* square of a ray, a Footman of the other colour stands beyond it, and the
\* slider is offered the two squares before the defended one.
DefenceBlocksWitness ==
  /\ is_some(answer)
  /\ \E r \in {ray(unwrap(answer).pos, o) :
                 o \in {Coordinate(1, 0), Coordinate(0, 1), Coordinate(1, 1)}} :
       /\ Len(r) >= 4
       /\ defended(unwrap(answer).pos, r, 3)
       /\ is_some(board[r[4].y][r[4].x].tile)
       /\ unwrap(board[r[4].y][r[4].x].tile).color
            # unwrap(board[unwrap(answer).pos.y][unwrap(answer).pos.x].tile).color
       /\ {a.target_pos : a \in {b \in Range(unwrap(answer).actions) :
                                   b.type = "Slide" /\ b.target_pos \in Range(r)}}
            = {r[1], r[2]}

\* The number of Dukes of a colour in a sequence of tiles.
dukes_in(tiles, color) ==
  Cardinality({i \in DOMAIN tiles : tiles[i].kind = "Duke" /\ tiles[i].color = color})

\* The number of Dukes of a colour on the board.
dukes_on_board(color) ==
  Cardinality({c \in Coords : holds(State, c, "Duke", color)})

\* C35: while the game is not over each colour has exactly one Duke, on the
\* board or in its drawn queue, none in a bag and none in the graveyard; a
\* Duke lies in the graveyard only when the other colour has won, and the
\* graveyard never holds two Dukes.
DukeWhereabouts ==
  /\ is_none(game_over) =>
       \A c \in TileColor :
         /\ dukes_on_board(c) + dukes_in(drawn_tiles[c], c) = 1
         /\ dukes_in(drawn_tiles[opponent(c)], c) = 0
         /\ \A b \in TileColor : dukes_in(bags[b], c) = 0
         /\ dukes_in(graveyard, c) = 0
  /\ \A c \in TileColor :
       dukes_in(graveyard, c) > 0 => game_over = Some(opponent(c))
  /\ dukes_in(graveyard, Black) + dukes_in(graveyard, White) <= 1

\* A Duke has just been captured: it lies in the graveyard and the game is
\* won by the side that took it.
DukeWhereaboutsWitness ==
  /\ steps > 0
  /\ graveyard # << >>
  /\ graveyard[Len(graveyard)].kind = "Duke"
  /\ game_over = Some(last.by)
  /\ dukes_on_board(last.by) = 1

\* C36: every Move, Jump, Slide, JumpSlide, Strike or Command action of
\* get_actions has the result Capture exactly when target_pos holds a tile of
\* the colour opposite to the acting tile and the result Move exactly when
\* target_pos is empty, so no action aims at a tile of the mover's colour;
\* the graveyard only receives tiles of the colour opposite to the side that
\* moved.
CaptureSemantics ==
  /\ [](\A a \in Range(get_actions(State)) :
          is_data_action(a) =>
            LET actor  == unwrap(square(State, a.tile_pos).tile)
                target == square(State, a.target_pos).tile
            IN  /\ a.result \in {"Move", "Capture"}
                /\ (a.result = "Capture")
                     <=> (is_some(target) /\ unwrap(target).color = opponent(actor.color))
                /\ (a.result = "Move") <=> is_none(target)
                /\ actor.color = ply)
  /\ [][graveyard' # graveyard =>
          /\ Len(graveyard') = Len(graveyard) + 1
          /\ SubSeq(graveyard', 1, Len(graveyard)) = graveyard
          /\ graveyard'[Len(graveyard')].color = opponent(ply)
          /\ last'.by = ply]_vars

\* After a capture the side to move can itself capture or move to an empty
\* square.
CaptureSemanticsWitness ==
  /\ steps > 0
  /\ graveyard # << >>
  /\ graveyard[Len(graveyard)].color = opponent(last.by)
  /\ \E a \in Range(get_actions(State)) : is_data_action(a) /\ a.result = "Capture"
  /\ \E a \in Range(get_actions(State)) : is_data_action(a) /\ a.result = "Move"

\* C37: every PlaceNew of get_actions aims at an empty square, the fixed
\* opening squares of get_spawn_squares included.
PlaceNewOnEmpty ==
  \A a \in Range(get_actions(State)) :
    a.type = "PlaceNew" => is_none(square(State, a.cord).tile)

\* The second side places its Duke: the other Duke is on the board and the
\* fixed opening squares are offered.
PlaceNewOnEmptyWitness ==
  /\ steps > 0
  /\ is_none(dukes[ply])
  /\ is_some(dukes[opponent(ply)])
  /\ get_actions(State) = << PlaceNew(Coordinate(2, HEIGHT - 1)),
                             PlaceNew(Coordinate(3, HEIGHT - 1)) >>

\* The number of effects of a kind that the active sides of the tiles on the
\* board project onto a square.
projected(cord, kind) ==
  Cardinality(
    UNION {{<< p, i >> : i \in {j \in DOMAIN active_effects(unwrap(board[p.y][p.x].tile)) :
                                  LET e == active_effects(unwrap(board[p.y][p.x].tile))[j]
                                  IN  /\ e.kind = kind
                                      /\ p.x + e.offset.x = cord.x
                                      /\ p.y + e.offset.y = cord.y}} :
           p \in {q \in Coords : is_some(board[q.y][q.x].tile)}})

CapturesFirst ==
  \A a, b \in Range(get_actions(State)) :
    LET capturing(x) == is_data_action(x) /\ x.result = "Capture"
        quiet(x)     == x.type # "PlaceNew" /\ ~capturing(x)
    IN  /\ (capturing(a) /\ quiet(b)) =>
             /\ action_cmp(State, a, b) = "Greater"
             /\ action_cmp(State, b, a) = "Less"
        /\ (a.type = "NewFromBag" /\ quiet(b)) =>
             /\ action_cmp(State, a, b) = "Equal"
             /\ action_cmp(State, b, a) = "Equal"

\* C34: over the legal actions of a state action_cmp is a consistent
\* ordering: the comparison of (a, b) is the reverse of that of (b, a), and
\* the relation is transitive.
ConsistentOrdering ==
  LET actions == Range(get_actions(State))
      reverse(o) == CASE o = "Less" -> "Greater" [] o = "Greater" -> "Less" [] OTHER -> "Equal"
      le(a, b) == action_cmp(State, a, b) \in {"Less", "Equal"}
  IN  /\ \A a, b \in actions : action_cmp(State, a, b) = reverse(action_cmp(State, b, a))
      /\ \A a, b, c \in actions :
           (le(a, b) /\ le(b, c)) =>
             /\ le(a, c)
             /\ (action_cmp(State, a, c) = "Equal"
                   => action_cmp(State, a, b) = "Equal" /\ action_cmp(State, b, c) = "Equal")

\* The value try_branch returns for an action when the frame of the child
\* starts after the deadline: the utility of the child's state whatever depth
\* remains (for NewFromBag the bag average on the unchanged state).
value_after_deadline(a, state, action) ==
  IF action.type = "NewFromBag"
  THEN (bag_utility(bag(state), 1) \div Len(bag(state))) + utility(a, state)
  ELSE utility(a, do_unsafe_action(state, action, 0))

\* C31: a frame of alpha_beta that starts after the deadline returns
\* (None, utility of its own state) without looking at the actions and without
\* recursing, whatever depth remains. At the root (duration 0) get_action
\* returns None after one utility evaluation; when the deadline passes right
\* after the root's reading (duration of one reading) every child frame
\* returns the utility of its state and nothing lies below the children. A
\* timeout yields a well-formed answer.
DeadlineShortCircuit ==
  (is_some(answer) /\ is_some(agent.duration)) =>
    LET d       == unwrap(agent.duration)
        actions == sort_by(State, get_actions(State), 1)
        values  == [i \in DOMAIN actions |-> value_after_deadline(agent, State, actions[i])]
    IN  /\ Answer.utility \in Int
        /\ is_none(Answer.action) \/ unwrap(Answer.action) \in Range(get_actions(State))
        /\ d = 0 =>
             /\ is_none(Answer.action)
             /\ Answer.utility = utility(agent, State)
             /\ Answer.st.leaves = 1 /\ Answer.st.timeouts = 1 /\ Answer.st.deepest = 0
        /\ (d = 1 /\ depth_limit(agent) > 0 /\ is_none(game_over)) =>
             /\ Answer.st.deepest = 1
             /\ Answer.st.leaves = Len(actions)
             /\ Answer.st.timeouts
                  = Cardinality({i \in DOMAIN actions : actions[i].type # "NewFromBag"})
             /\ \A i \in DOMAIN actions : values[i] <= Answer.utility
             /\ \E i \in DOMAIN actions :
                  /\ values[i] = Answer.utility
                  /\ \A j \in 1..(i - 1) : values[j] < values[i]
                  /\ Answer.action = Some(actions[i])

\* A search of depth 3 or more in a running game whose deadline passed right
\* after the root's reading of the clock: every child returned on the timer.
DeadlineShortCircuitWitness ==
  /\ is_some(answer)
  /\ agent.duration = Some(1)
  /\ depth_limit(agent) >= 3
  /\ is_none(game_over)
  /\ Answer.st.timeouts >= 3
  /\ Answer.st.deepest = 1
  /\ is_some(Answer.action)

\* The value of the NewFromBag branch of a state: the integer average of
\* TILE_UTILITY over the bag of the side to move plus the utility of the state.
bag_value(a, state) ==
  (bag_utility(bag(state), 1) \div Len(bag(state))) + utility(a, state)

\* C32: the search treats NewFromBag as a leaf: its branch is worth the
\* integer average of tile_utility over bags[ply] plus the utility of the
\* unchanged state, whatever depth remains, no tile is drawn and the bag is
\* not empty where the value is computed. A search of depth 1 returns the
\* first maximum over this value and the utilities of the other successors;
\* a deeper search returns no less than it, and exactly it when NewFromBag is
\* the action returned.
ChanceLeaf ==
  (is_some(answer) /\ is_none(agent.duration) /\ NewFromBag \in Range(get_actions(State))) =>
    LET actions == sort_by(State, get_actions(State), 1)
        values  == [i \in DOMAIN actions |->
                      IF actions[i] = NewFromBag THEN bag_value(agent, State)
                      ELSE utility(agent, do_unsafe_action(State, actions[i], 0))]
    IN  /\ bags[ply] # << >>
        /\ unwrap(agent.depth) >= 1 =>
             /\ Answer.utility >= bag_value(agent, State)
             /\ Answer.action = Some(NewFromBag) => Answer.utility = bag_value(agent, State)
        /\ unwrap(agent.depth) = 1 =>
             /\ Answer.st.leaves = Len(actions)
             /\ Answer.st.deepest = 1
             /\ \E i \in DOMAIN actions :
                  /\ Answer.utility = values[i]
                  /\ Answer.action = Some(actions[i])
                  /\ \A j \in DOMAIN actions : values[j] <= values[i]
                  /\ \A j \in 1..(i - 1) : values[j] < values[i]

\* A search of depth 2 without duration found nothing better than to draw a
\* tile from the bag.
ChanceLeafWitness ==
  /\ is_some(answer)
  /\ is_none(agent.duration)
  /\ agent.depth = Some(2)
  /\ Answer.action = Some(NewFromBag)
  /\ bags[ply] # << >>

\* C39: for an agent with a depth d and no duration get_action returns in
\* every position it is asked in; the search is never deeper than d frames
\* below the root, the frames cut by depth 0 in a running game lie exactly d
\* below it (the depth falls by one per frame and does not pass 0), at least
\* one leaf is evaluated and the clock is never read.
SearchTermination ==
  (is_some(agent.depth) /\ is_none(agent.duration)) =>
    \A r \in {IF is_some(answer) THEN Answer ELSE alpha_beta_search(agent, State)} :
      /\ is_none(r.action) \/ unwrap(r.action) \in Range(get_actions(State))
      /\ r.utility \in Int
      /\ r.st.deepest <= unwrap(agent.depth)
      /\ r.st.depth_cuts > 0 => r.st.deepest = unwrap(agent.depth)
      /\ r.st.leaves >= 1
      /\ r.st.ticks = 0
      /\ is_some(answer) => Answer = alpha_beta_search(agent, State)

\* A search of depth 3 without duration has returned an action after cutting
\* running games three frames below the root.
SearchTerminationWitness ==
  /\ is_some(answer)
  /\ agent.depth = Some(3)
  /\ is_none(agent.duration)
  /\ Answer.st.deepest = 3
  /\ Answer.st.depth_cuts > 0
  /\ is_some(Answer.action)

====
